---- MODULE Spec2Model ----
(***************************************************************************)
(* Trip generation pipeline of trekgo-backend:                             *)
(*   TripService.generateTrip -> LLMService.generateRoute ->               *)
(*   GroqService.generateRoutePoints, LLMService.buildRealRoutes,          *)
(*   processTrekRoutes / processCyclingRoutes, validateFinalTrip,          *)
(*   ConstraintService.validateTrek / validateCycling.                     *)
(*                                                                         *)
(* Units.  Coordinates are integers in micro-degrees (0.001 deg = 1000).   *)
(* Distances stored on a route are integers in thousandths of a km         *)
(* (5 km = 5000); the routing service answers in metres and seconds.       *)
(* Durations stored on a route are minutes.                                *)
(***************************************************************************)
EXTENDS Integers, Sequences, FiniteSets, TLC

\* ------------------------------------------------------------------------
\* Bounds of the model
\* ------------------------------------------------------------------------
\* largest number of days in a proposal the text-generation service returns
MaxDays == 2
\* largest number of waypoints in a proposed day
MaxWaypoints == 3
\* largest number of days of one request whose first routing request the
\* routing service rejects as unreachable
MaxRepairs == 1
\* largest number of days of a trek whose totals are computed from routes
\* that are given, not built
MaxTrekDays == 3

\* ------------------------------------------------------------------------
\* Program constants
\* ------------------------------------------------------------------------
maxAttempts == 3
POINT_TOLERANCE == 1000
TrekMinDays == 1
TrekMaxDays == 5
CyclingDays == 2
TrekMinDistance == 5000
TrekMaxDistance == 15000
CyclingMinDistance == 10000
CyclingMaxDistance == 60000
CyclingValidateMinDistance == 10
FirstSearchRadius == 1000

\* a value that is absent (null or undefined)
NoValue == [kind |-> "null"]

\* ------------------------------------------------------------------------
\* Points
\* ------------------------------------------------------------------------
Pt(la, ln, nm) == [lat |-> la, lng |-> ln, name |-> nm]

\* JSON values of a lat or lng member that are not numbers: null, and a
\* member that is missing (undefined)
JsonNull == 999999998
JsonUndefined == 999999999
\* the number NaN
NaN == 999999997

\* Number(v): null converts to 0, undefined to NaN
ToNumber(v) ==
    IF v = JsonNull THEN 0
    ELSE IF v = JsonUndefined THEN NaN
    ELSE v

\* the numbers Infinity and -Infinity
Infinity == 1000000000
NegInfinity == -1000000000

\* Number.isFinite(x)
IsFinite(x) == x \notin { NaN, Infinity, NegInfinity }

\* a < b and a > b on numbers: a comparison with NaN is false
Less(a, b) == a # NaN /\ b # NaN /\ a < b
Greater(a, b) == a # NaN /\ b # NaN /\ a > b

\* Math.abs(x)
MathAbs(x) == IF x = NaN THEN NaN ELSE IF x < 0 THEN -x ELSE x

\* points the text-generation service proposes: PA and PB are 0.0005 deg
\* apart on both axes (the same location), PD is far from both
PA == Pt(48850000, 2350000, "a")
PB == Pt(48850500, 2350500, "b")
PD == Pt(48900000, 2400000, "d")
WaypointPool == << Pt(48860000, 2360000, "w1"), Pt(48870000, 2370000, "w2"),
                   Pt(48880000, 2380000, "w3"), Pt(48890000, 2390000, "w4") >>
\* centroid the geocoder answers for the city
CityCentre == << 2352200, 48856600 >>

Abs(x) == IF x < 0 THEN -x ELSE x

\* LLMService.isSamePoint
isSamePoint(a, b) ==
    Abs(a.lat - b.lat) < POINT_TOLERANCE /\ Abs(a.lng - b.lng) < POINT_TOLERANCE

\* the comparison with the tolerance is not strict
ConstraintIsSamePoint_inclusive(a, b) ==
    IF a = NoValue \/ b = NoValue THEN FALSE
    ELSE Abs(a.lat - b.lat) <= POINT_TOLERANCE /\ Abs(a.lng - b.lng) <= POINT_TOLERANCE

\* ConstraintService.isSamePoint
ConstraintIsSamePoint(a, b) ==
    IF a = NoValue \/ b = NoValue THEN FALSE
    ELSE Abs(a.lat - b.lat) < POINT_TOLERANCE /\ Abs(a.lng - b.lng) < POINT_TOLERANCE

\* [lng, lat] pair sent to the routing service
Coord(p) == << p.lng, p.lat >>

RECURSIVE SumOver(_, _, _)
SumOver(s, i, field) ==
    IF i > Len(s) THEN 0 ELSE s[i][field] + SumOver(s, i + 1, field)

\* Math.round(x / d) for integers x >= 0, d > 0 (half rounds up)
RoundDiv(x, d) == (2 * x + d) \div (2 * d)

\* ------------------------------------------------------------------------
\* Errors
\* ------------------------------------------------------------------------
\* app: instance of AppError; code: its errorCode; msg: what its message says
Err(isApp, c, m) == [app |-> isApp, code |-> c, msg |-> m]
NoError == Err(FALSE, "none", "none")

\* ------------------------------------------------------------------------
\* Requests in flight
\* ------------------------------------------------------------------------
VARIABLES
    running,       \* the request the event loop runs; 0: the process serves one request
    parked         \* the locals of the request that is suspended at an await

\* two requests are in flight
Interleaved == running # 0

VARIABLES
    user,          \* the stored User document of the one registered account
    now,           \* Date.now(), in seconds
    sessions,      \* the calls of AuthService.login in flight
    authHist       \* what the calls of AuthService did so far

\* ------------------------------------------------------------------------
\* Answers of the external services (inputs of the model)
\* ------------------------------------------------------------------------
DayProposal(d, s, e, w) ==
    [day |-> d, startPoint |-> s, endPoint |-> e, waypoints |-> w]

\* the first n waypoints of the pool
Waypoints(n) == SubSeq(WaypointPool, 1, n)

\* shapes of a proposed day: start, end, waypoints
DayShapes ==
    { << PD, PA, Waypoints(MaxWaypoints) >>,
      << PD, PB, Waypoints(1) >>,
      << PA, PA, Waypoints(2) >>,
      << PB, PD, Waypoints(0) >> }

\* the shape of the days of a trek beyond the number of days of a cycling
\* trip
LaterDayShapes == { << PD, PB, Waypoints(1) >> }

\* day-by-day proposals the text-generation service may return
DayChoices(d) ==
    { DayProposal(d, x[1], x[2], x[3]) :
        x \in IF d <= CyclingDays THEN DayShapes ELSE LaterDayShapes }

RECURSIVE RouteSeqs(_)
RouteSeqs(n) ==
    IF n = 0 THEN { << >> }
    ELSE { Append(r, x) : r \in RouteSeqs(n - 1), x \in DayChoices(n) }

Parsed(c, t, n, r) ==
    [kind |-> "json", city |-> c, tripType |-> t, estimatedDays |-> n, routes |-> r]

\* JSON objects that respect the schema's shape
WellFormedObjects ==
    { Parsed("Paris, France", t, Len(r), r) :
        t \in {"trek", "cycling"}, r \in UNION { RouteSeqs(n) : n \in 1..MaxDays } }

\* JSON objects with one schema defect each
OneDay == << DayProposal(1, PA, PA, << >>) >>
DefectObjects ==
    { Parsed("Paris", "trek", 1, OneDay),
      Parsed("Paris, France", "hike", 1, OneDay),
      Parsed("Paris, France", "trek", 0, << >>),
      Parsed("Paris, France", "trek", 2, OneDay),
      Parsed("Paris, France", "trek", 1, << DayProposal(1, NoValue, PA, << >>) >>),
      Parsed("Paris, France", "trek", 1, << DayProposal(1, PA, Pt(91000000, 0, "x"), << >>) >>),
      Parsed("Paris, France", "trek", 1,
             << DayProposal(1, PA, Pt(JsonUndefined, PA.lng, "x"), << >>) >>) }

\* JSON objects the schema check accepts although a point has no name
UnnamedPointObjects ==
    { Parsed("Paris, France", t, 2,
             << DayProposal(1, Pt(PA.lat, PA.lng, ""), PD, << >>),
                DayProposal(2, PD, PD, << >>) >>) : t \in {"trek", "cycling"} }

\* JSON objects the schema check accepts although a point lies in the sea
\* off West Africa, or is the point (0, 0)
SeaPoint == Pt(500000, 500000, "sea")
NullIsland == Pt(0, 0, "origin")
UnroutablePointObjects ==
    { Parsed("Paris, France", "trek", 1, << DayProposal(1, PA, p, << >>) >>) :
        p \in { SeaPoint, NullIsland } }

\* JSON objects in which the lat and lng members of a point are null
NullCoordinateObjects ==
    { Parsed("Paris, France", "trek", 1,
             << DayProposal(1, PA, Pt(JsonNull, JsonNull, "unknown"), << >>) >>) }

\* a JSON object with a day of five waypoints, more than the prompt asks for
FiveWaypoints == WaypointPool \o << Pt(48895000, 2395000, "w5") >>
OverfullDayObjects ==
    { Parsed("Paris, France", "trek", 1, << DayProposal(1, PA, PA, FiveWaypoints) >>) }

\* what one call of the text-generation service produces: the SDK throws,
\* the completion is empty, the text holds no JSON object, the text between
\* the braces does not parse, or the text holds a JSON object
AllLLMResponses ==
    { [kind |-> k] : k \in {"error", "empty", "nojson", "badjson"} }
        \cup WellFormedObjects \cup DefectObjects \cup UnnamedPointObjects
        \cup UnroutablePointObjects \cup NullCoordinateObjects
        \cup OverfullDayObjects

\* the answers drawn while two requests are in flight: the SDK throws, a
\* one-day trek, a two-day cycling trip
InterleavedLLMResponses ==
    { [kind |-> "error"],
      Parsed("Paris, France", "trek", 1, << DayProposal(1, PD, PA, Waypoints(1)) >>),
      Parsed("Paris, France", "cycling", CyclingDays,
             << DayProposal(1, PD, PB, Waypoints(1)), DayProposal(2, PB, PD, Waypoints(0)) >>) }

LLMResponses == IF Interleaved THEN InterleavedLLMResponses ELSE AllLLMResponses

\* answers of the routing service to a directions request
RouteAnswer(m, s) == [kind |-> "ok", meters |-> m, seconds |-> s]
TrekAnswers ==
    { RouteAnswer(4994, 89), RouteAnswer(4996, 91),
      RouteAnswer(15004, 89), RouteAnswer(15006, 91) }
CyclingAnswers ==
    { RouteAnswer(9994, 89), RouteAnswer(9996, 91),
      RouteAnswer(60004, 89), RouteAnswer(60006, 91) }
\* non-success answers: "unreachable" is the error body with code 2010,
\* "failed" any other failure, "misleading" an error body with another code
\* whose message holds the words 'routable point'
Rejections == { [kind |-> "unreachable"], [kind |-> "failed"], [kind |-> "misleading"] }
InterleavedORSAnswers(profile) ==
    IF profile = "foot-walking"
    THEN { RouteAnswer(4996, 91), RouteAnswer(15006, 91), [kind |-> "unreachable"] }
    ELSE { RouteAnswer(9996, 91), [kind |-> "unreachable"] }

ORSAnswers(profile) ==
    IF Interleaved THEN InterleavedORSAnswers(profile)
    ELSE (IF profile = "foot-walking" THEN TrekAnswers ELSE CyclingAnswers) \cup Rejections

\* ------------------------------------------------------------------------
\* State
\* ------------------------------------------------------------------------
VARIABLES
    destination,   \* generateTrip argument
    tripType,      \* generateTrip argument
    pc,            \* position of the request in the await chain
    attempt,       \* generateRoutePoints: loop counter
    lastError,     \* generateRoutePoints: lastError
    llmLog,        \* requests sent to the text-generation service so far
    llmData,       \* generateRoute: llmRouteData
    dayIdx,        \* index of the day a loop is working on (1-based)
    coordinates,   \* buildRealRoutes: coordinates / fixedCoordinates of the day
    routes,        \* generateRoute: routes, the array buildRealRoutes fills
    processedRoutes, \* processTrekRoutes: processedRoutes; generateRoute: validatedRoutes
    replaced,      \* days whose route object the trimming loop replaced
    repairs,       \* number of days whose coordinates were repaired so far
    llmTrip,       \* generateRoute: the trip object it builds and returns
    result,        \* the Trip returned to the caller of generateTrip
    thrown,        \* the error thrown to the caller of generateTrip
    raised,        \* the error as it was raised, before any catch block wrapped it
    orsLog,        \* calls of ORSService.fetchRoute so far, in order
    lastFetch,     \* the latest call of ORSService.fetchRoute and how it ended
    resolverLog    \* calls of CoordinateService.findRoutableCoordinates so far

vars == << destination, tripType, pc, attempt, lastError, llmLog, llmData,
           dayIdx, coordinates, routes, processedRoutes, replaced, repairs,
           llmTrip, result, thrown, raised, orsLog, lastFetch, resolverLog,
           running, parked, user, now, sessions, authHist >>

\* ------------------------------------------------------------------------
\* AuthService, TokenManager and the User model
\* ------------------------------------------------------------------------
\* largest number of refresh tokens stored for the account
MaxStoredTokens == 2
\* largest number of single seconds the clock advances in a row
MaxSeconds == 1
\* latest instant of the clock
MaxNow == 1801

LockThreshold == 5
LockSeconds == 1800
\* JWT_REFRESH_EXPIRE, in seconds (7d)
RefreshExpiresIn == 604800

\* accountLockedUntil is undefined
NoLock == 0

\* a refresh token: the payload jwt.sign signs is the user id and iat, the
\* time in whole seconds, so two tokens signed for the account in the same
\* second are the same string
Token(iat) == [iat |-> iat, forged |-> FALSE]
\* a string that is not a token signed with the refresh secret
ForgedToken == [iat |-> 0, forged |-> TRUE]
NoToken == [iat |-> -1, forged |-> FALSE]

\* TokenManager.generateRefreshToken at time t
generateRefreshToken(t) == Token(t)

\* TokenManager.verifyRefreshToken at time t: TRUE iff jwt.verify returns
verifyRefreshToken(tok, t) == ~tok.forged /\ t < tok.iat + RefreshExpiresIn

\* User.isAccountLocked at time t
isAccountLocked(doc, t) ==
    doc.accountLockedUntil # NoLock /\ doc.accountLockedUntil > t

\* User.incrementFailedAttempts at time t, before the save
incrementFailedAttempts(doc, t) ==
    [doc EXCEPT !.failedLoginAttempts = @ + 1,
                !.accountLockedUntil =
                    IF doc.failedLoginAttempts + 1 >= LockThreshold
                    THEN t + LockSeconds ELSE @]

\* User.resetFailedAttempts, before the save
resetFailedAttempts(doc) ==
    [doc EXCEPT !.failedLoginAttempts = 0, !.accountLockedUntil = NoLock]

\* document.save(): the update sets the paths whose value the handler
\* changed since it loaded the document, in the document that is stored
Save(stored, loaded, doc) ==
    [stored EXCEPT
        !.failedLoginAttempts =
            IF doc.failedLoginAttempts # loaded.failedLoginAttempts
            THEN doc.failedLoginAttempts ELSE @,
        !.accountLockedUntil =
            IF doc.accountLockedUntil # loaded.accountLockedUntil
            THEN doc.accountLockedUntil ELSE @]

\* refreshTokens.filter(tokenObj => tokenObj.token !== tok)
WithoutToken(tokens, tok) == SelectSeq(tokens, LAMBDA x : x # tok)

Stored(tokens, tok) == \E i \in 1..Len(tokens) : tokens[i] = tok

\* the account after register() at time 0
RegisteredUser ==
    [failedLoginAttempts |-> 0, accountLockedUntil |-> NoLock,
     refreshTokens |-> << generateRefreshToken(0) >>]

\* what a call of login keeps of the document it loaded
Loaded(doc) ==
    [failedLoginAttempts |-> doc.failedLoginAttempts,
     accountLockedUntil |-> doc.accountLockedUntil]

IdleSession == [pc |-> "idle", loaded |-> Loaded(RegisteredUser), valid |-> FALSE]

\* the record of a call that returned or threw
AuthCall(o, c, tok, new, before, after) ==
    [op |-> o, code |-> c, token |-> tok, issued |-> new, at |-> now,
     locked |-> isAccountLocked(user, now),
     before |-> before, after |-> after]

InitialHist ==
    [last |-> [op |-> "register", code |-> "ok", token |-> NoToken,
               issued |-> generateRefreshToken(0), at |-> 0, locked |-> FALSE,
               before |-> [RegisteredUser EXCEPT !.refreshTokens = << >>],
               after |-> RegisteredUser],
     failedLogins |-> 0,
     lockDue |-> NoLock,
     issued |-> { generateRefreshToken(0) },
     redeemed |-> {},
     redeemedAgain |-> {},
     loggedOut |-> {},
     afterLogout |-> FALSE]

NoAuthCalls ==
    /\ user = RegisteredUser
    /\ now = 0
    /\ sessions = [s \in 1..2 |-> IdleSession]
    /\ authHist = InitialHist

RequestUnchanged ==
    UNCHANGED << destination, tripType, pc, attempt, lastError, llmLog, llmData,
                 dayIdx, coordinates, routes, processedRoutes, replaced, repairs,
                 llmTrip, result, thrown, raised, orsLog, lastFetch, resolverLog,
                 running, parked >>

\* AuthService.login up to the await of comparePassword: the document is
\* loaded, an unknown email and a locked account are refused
LoginStart(s, known, valid) ==
    /\ sessions[s].pc = "idle"
    /\ IF ~known
       THEN /\ authHist' = [authHist EXCEPT
                   !.last = AuthCall("login other", "INVALID_CREDENTIALS", NoToken, NoToken, user, user)]
            /\ UNCHANGED sessions
       ELSE IF isAccountLocked(user, now)
       THEN /\ authHist' = [authHist EXCEPT
                   !.last = AuthCall("login", "ACCOUNT_LOCKED", NoToken, NoToken, user, user)]
            /\ UNCHANGED sessions
       ELSE /\ sessions' = [sessions EXCEPT
                   ![s] = [pc |-> "compare", loaded |-> Loaded(user), valid |-> valid]]
            /\ UNCHANGED authHist
    /\ UNCHANGED << user, now >>
    /\ RequestUnchanged

\* AuthService.login from the answer of comparePassword on
LoginFinish(s) ==
    /\ sessions[s].pc = "compare"
    /\ LET loaded == sessions[s].loaded
       IN IF ~sessions[s].valid
          THEN LET doc == incrementFailedAttempts(loaded, now)
                   saved == Save(user, loaded, doc)
               IN /\ user' = saved
                  /\ authHist' = [authHist EXCEPT
                         !.last = AuthCall("login", "INVALID_CREDENTIALS", NoToken, NoToken,
                                           user, saved),
                         !.failedLogins = IF @ >= LockThreshold THEN @ ELSE @ + 1,
                         !.lockDue = IF authHist.failedLogins + 1 >= LockThreshold
                                     THEN now + LockSeconds ELSE @]
          ELSE LET doc == resetFailedAttempts(loaded)
                   tok == generateRefreshToken(now)
                   saved == [Save(user, loaded, doc) EXCEPT
                                !.refreshTokens = Append(@, tok)]
               IN /\ Len(user.refreshTokens) < MaxStoredTokens
                  /\ user' = saved
                  /\ authHist' = [authHist EXCEPT
                         !.last = AuthCall("login", "ok", NoToken, tok, user, saved),
                         !.failedLogins = 0,
                         !.lockDue = NoLock,
                         !.issued = @ \cup { tok }]
    /\ sessions' = [sessions EXCEPT ![s] = IdleSession]
    /\ UNCHANGED now
    /\ RequestUnchanged

\* AuthService.refreshToken(tok)
RefreshToken(tok) ==
    /\ IF ~verifyRefreshToken(tok, now)
       THEN /\ authHist' = [authHist EXCEPT
                   !.last = AuthCall("refresh", "JsonWebTokenError", tok, NoToken, user, user),
                   !.afterLogout = tok \in authHist.loggedOut]
            /\ UNCHANGED user
       ELSE IF ~Stored(user.refreshTokens, tok)
       THEN /\ authHist' = [authHist EXCEPT
                   !.last = AuthCall("refresh", "INVALID_REFRESH_TOKEN", tok, NoToken, user, user),
                   !.afterLogout = tok \in authHist.loggedOut]
            /\ UNCHANGED user
       ELSE LET new == generateRefreshToken(now)
                saved == [user EXCEPT
                             !.refreshTokens = Append(WithoutToken(@, tok), new)]
            IN /\ user' = saved
               /\ authHist' = [authHist EXCEPT
                      !.last = AuthCall("refresh", "ok", tok, new, user, saved),
                      !.issued = @ \cup { new },
                      !.redeemed = @ \cup { tok },
                      !.redeemedAgain = @ \cup ({ tok } \cap authHist.redeemed),
                      !.afterLogout = tok \in authHist.loggedOut]
    /\ UNCHANGED << now, sessions >>
    /\ RequestUnchanged

\* AuthService.logout(userId, tok)
Logout(tok) ==
    /\ LET saved == [user EXCEPT !.refreshTokens = WithoutToken(@, tok)]
       IN /\ user' = saved
          /\ authHist' = [authHist EXCEPT
                 !.last = AuthCall("logout", "ok", tok, NoToken, user, saved),
                 !.loggedOut = @ \cup { tok }]
    /\ UNCHANGED << now, sessions >>
    /\ RequestUnchanged

\* d seconds pass
Tick(d) ==
    /\ now + d <= MaxNow
    /\ d = 1 => (now % (LockSeconds - 1)) < MaxSeconds
    /\ now' = now + d
    /\ UNCHANGED << user, sessions, authHist >>
    /\ RequestUnchanged

\* no generateTrip request is made
NoRequest ==
    /\ destination = "Paris"
    /\ tripType = "trek"
    /\ pc = "start"
    /\ attempt = 1
    /\ lastError = NoError
    /\ llmLog = << >>
    /\ llmData = NoValue
    /\ dayIdx = 1
    /\ coordinates = << >>
    /\ routes = << >>
    /\ processedRoutes = << >>
    /\ replaced = {}
    /\ repairs = 0
    /\ llmTrip = NoValue
    /\ result = NoValue
    /\ thrown = NoError
    /\ raised = NoError
    /\ orsLog = << >>
    /\ lastFetch = NoValue
    /\ resolverLog = << >>
    /\ running = 0
    /\ parked = NoValue

LockoutInit == NoAuthCalls /\ NoRequest

\* logins, two of which may overlap, while the clock runs through a lock
\* period
LockoutNext ==
    \/ \E s \in DOMAIN sessions, known, valid \in BOOLEAN : LoginStart(s, known, valid)
    \/ \E s \in DOMAIN sessions : LoginFinish(s)
    \/ \E d \in { 1, LockSeconds - 1 } : Tick(d)

LockoutSpec == LockoutInit /\ [][LockoutNext]_vars

\* one client: every call returns before the next call starts
SequentialInit ==
    /\ NoRequest
    /\ user = RegisteredUser
    /\ now = 0
    /\ sessions = [s \in 1..1 |-> IdleSession]
    /\ authHist = InitialHist

SequentialNext ==
    \/ \E known, valid \in BOOLEAN : LoginStart(1, known, valid)
    \/ LoginFinish(1)
    \/ \E tok \in authHist.issued \cup { ForgedToken } :
           sessions[1].pc = "idle" /\ RefreshToken(tok)
    \/ \E tok \in authHist.issued \cup { ForgedToken } :
           sessions[1].pc = "idle" /\ Logout(tok)
    \/ Tick(1)

SequentialSpec == SequentialInit /\ [][SequentialNext]_vars

\* ------------------------------------------------------------------------
\* Two calls of AuthService.refreshToken in flight
\* ------------------------------------------------------------------------
\* the stored document with its version key __v
VersionedUser ==
    [failedLoginAttempts |-> 0, accountLockedUntil |-> NoLock,
     refreshTokens |-> << generateRefreshToken(0) >>, version |-> 0]

\* a call of refreshToken that has not started
IdleRefresh ==
    [pc |-> "idle", token |-> NoToken, doc |-> VersionedUser, code |-> "none",
     overlapped |-> FALSE]

\* the call is past findById and has not returned or thrown
InFlight(call) == call.pc \in {"loaded", "signed"}

\* document.save() after refreshTokens was assigned: the update replaces
\* the stored array and is conditioned on the version key the document was
\* loaded with; TRUE iff the update finds the document
VersionMatches(stored, doc) == stored.version = doc.version

ConcurrentRefreshInit ==
    /\ NoRequest
    /\ user = VersionedUser
    /\ now = 0
    /\ sessions = [s \in 1..2 |-> IdleRefresh]
    /\ authHist = InitialHist

\* refreshToken(tok) up to the await of findById: the token is verified
\* and the document is loaded
RefreshLoad(s, tok) ==
    /\ sessions[s].pc = "idle"
    /\ IF ~verifyRefreshToken(tok, now)
       THEN sessions' = [sessions EXCEPT
                ![s] = [@ EXCEPT !.pc = "failed", !.token = tok,
                                 !.code = "JsonWebTokenError"]]
       ELSE sessions' = [q \in DOMAIN sessions |->
                IF q = s
                THEN [sessions[q] EXCEPT !.pc = "loaded", !.token = tok, !.doc = user,
                          !.overlapped = \E o \in DOMAIN sessions : InFlight(sessions[o])]
                ELSE IF InFlight(sessions[q])
                THEN [sessions[q] EXCEPT !.overlapped = TRUE]
                ELSE sessions[q]]
    /\ UNCHANGED << user, now, authHist >>
    /\ RequestUnchanged

\* refreshToken from the loaded document to the await of generateTokens:
\* the token must be in the loaded array, it is filtered out, and the new
\* token is signed and pushed
RefreshSign(s) ==
    /\ sessions[s].pc = "loaded"
    /\ LET call == sessions[s]
       IN IF ~Stored(call.doc.refreshTokens, call.token)
          THEN sessions' = [sessions EXCEPT
                   ![s] = [@ EXCEPT !.pc = "failed", !.code = "INVALID_REFRESH_TOKEN"]]
          ELSE sessions' = [sessions EXCEPT
                   ![s] = [@ EXCEPT !.pc = "signed",
                              !.doc.refreshTokens =
                                  Append(WithoutToken(@, call.token), generateRefreshToken(now))]]
    /\ UNCHANGED << user, now, authHist >>
    /\ RequestUnchanged

\* refreshToken, await user.save() and return
RefreshSave(s) ==
    /\ sessions[s].pc = "signed"
    /\ LET call == sessions[s]
       IN IF VersionMatches(user, call.doc)
          THEN /\ user' = [user EXCEPT !.refreshTokens = call.doc.refreshTokens,
                                       !.version = @ + 1]
               /\ sessions' = [sessions EXCEPT ![s] = [@ EXCEPT !.pc = "returned", !.code = "ok"]]
          ELSE /\ sessions' = [sessions EXCEPT
                      ![s] = [@ EXCEPT !.pc = "failed", !.code = "VersionError"]]
               /\ UNCHANGED user
    /\ UNCHANGED << now, authHist >>
    /\ RequestUnchanged

\* two clients call refreshToken once each while the clock runs
ConcurrentRefreshNext ==
    \/ \E s \in DOMAIN sessions, tok \in { Token(0), Token(1), ForgedToken } : RefreshLoad(s, tok)
    \/ \E s \in DOMAIN sessions : RefreshSign(s)
    \/ \E s \in DOMAIN sessions : RefreshSave(s)
    \/ Tick(1)

ConcurrentRefreshSpec == ConcurrentRefreshInit /\ [][ConcurrentRefreshNext]_vars

Init ==
    /\ destination \in {"", "Paris"}
    /\ tripType \in {"trek", "cycling", "hike", ""}
    /\ pc = "start"
    /\ attempt = 1
    /\ lastError = NoError
    /\ llmLog = << >>
    /\ llmData = NoValue
    /\ dayIdx = 1
    /\ coordinates = << >>
    /\ routes = << >>
    /\ processedRoutes = << >>
    /\ replaced = {}
    /\ repairs = 0
    /\ llmTrip = NoValue
    /\ result = NoValue
    /\ thrown = NoError
    /\ raised = NoError
    /\ orsLog = << >>
    /\ lastFetch = NoValue
    /\ resolverLog = << >>
    /\ running = 0
    /\ parked = NoValue
    /\ NoAuthCalls

\* the catch block rethrows whatever it caught
Rethrow_asCaught(e) == e

\* TripService.generateTrip, catch block: an AppError reaches the caller as
\* it is, anything else becomes TRIP_GENERATION_FAILED
Rethrow(e) ==
    IF e.app THEN e ELSE Err(TRUE, "TRIP_GENERATION_FAILED", "generic")

\* the request ends with error e thrown inside generateTrip's try block
Throw(e) ==
    /\ pc' = "done"
    /\ thrown' = Rethrow(e)
    /\ raised' = e
    /\ result' = NoValue

\* the request ends with error e thrown inside generateTrip's try block by a
\* catch block that caught the error orig
ThrowWrapped(orig, e) ==
    /\ pc' = "done"
    /\ thrown' = Rethrow(e)
    /\ raised' = orig
    /\ result' = NoValue

\* ------------------------------------------------------------------------
\* GroqService
\* ------------------------------------------------------------------------
\* GroqService.validatePoint: TRUE iff the point is accepted
GroqValidatePoint(p) ==
    /\ p # NoValue
    /\ LET lat == ToNumber(p.lat)
           lng == ToNumber(p.lng)
       IN /\ IsFinite(lat) /\ lat >= -90000000 /\ lat <= 90000000
          /\ IsFinite(lng) /\ lng >= -180000000 /\ lng <= 180000000

\* GroqService.validatePoint: the point it returns
ValidatedPoint(p) == Pt(ToNumber(p.lat), ToNumber(p.lng), p.name)

HasComma(c) == c = "Paris, France"

\* GroqService.extractJSON + parseAndValidateJSON: the error it throws, or
\* NoError when the response is accepted
ParseError(resp, expectedTripType) ==
    IF resp.kind = "nojson" THEN Err(TRUE, "VALIDATION_ERROR", "no json object")
    ELSE IF resp.kind = "badjson" THEN Err(TRUE, "VALIDATION_ERROR", "invalid json")
    ELSE IF ~HasComma(resp.city) THEN Err(TRUE, "VALIDATION_ERROR", "city")
    ELSE IF resp.tripType # expectedTripType THEN Err(TRUE, "VALIDATION_ERROR", "tripType")
    ELSE IF resp.estimatedDays < 1 THEN Err(TRUE, "VALIDATION_ERROR", "estimatedDays")
    ELSE IF Len(resp.routes) # resp.estimatedDays THEN Err(TRUE, "VALIDATION_ERROR", "routes length")
    ELSE IF expectedTripType = "trek"
            /\ (resp.estimatedDays < TrekMinDays \/ resp.estimatedDays > TrekMaxDays)
         THEN Err(TRUE, "VALIDATION_ERROR", "trek days")
    ELSE IF expectedTripType = "trek"
            /\ (resp.routes[1].startPoint = NoValue
                \/ resp.routes[Len(resp.routes)].endPoint = NoValue)
         THEN Err(TRUE, "VALIDATION_ERROR", "trek start/end")
    ELSE IF expectedTripType = "cycling" /\ resp.estimatedDays # CyclingDays
         THEN Err(TRUE, "VALIDATION_ERROR", "cycling days")
    ELSE IF \E i \in 1..Len(resp.routes) :
                resp.routes[i].startPoint = NoValue \/ resp.routes[i].endPoint = NoValue
         THEN Err(TRUE, "VALIDATION_ERROR", "route start/end")
    ELSE IF \E i \in 1..Len(resp.routes) :
                \/ ~GroqValidatePoint(resp.routes[i].startPoint)
                \/ ~GroqValidatePoint(resp.routes[i].endPoint)
                \/ \E j \in 1..Len(resp.routes[i].waypoints) :
                       ~GroqValidatePoint(resp.routes[i].waypoints[j])
         THEN Err(TRUE, "VALIDATION_ERROR", "point")
    ELSE NoError

\* GroqService.callLLMForJSON: the error it throws for a response, or NoError
CallError(resp) ==
    IF resp.kind \in {"error", "empty"}
    THEN Err(TRUE, "EXTERNAL_SERVICE_ERROR", "llm service")
    ELSE NoError

\* GroqService.buildRoutePrompt(destination, tripType, previousError): the
\* caller passes the caught error object, and the function calls
\* previousError.includes(...), which an error object does not have; the
\* call throws a TypeError whenever previousError is not null
BuildRoutePromptError(previousError) ==
    IF previousError # NoError
    THEN Err(FALSE, "TypeError", "previousError.includes is not a function")
    ELSE NoError

\* GroqService.buildRoutePrompt: the prompt it returns when it does not
\* throw; guidance is TRUE iff the block of routing requirements is part of
\* the prompt, which is so iff previousError is a text holding the words
\* 'routable point'
RoutePrompt(previousError) ==
    [guidance |-> previousError # NoError /\ previousError.msg = "routable point"]

\* GroqService.parseAndValidateJSON: the value it returns
ParsedRoutePoints(resp) ==
    [city |-> resp.city, tripType |-> resp.tripType,
     estimatedDays |-> resp.estimatedDays,
     routes |-> [i \in 1..Len(resp.routes) |->
         DayProposal(resp.routes[i].day,
                     ValidatedPoint(resp.routes[i].startPoint),
                     ValidatedPoint(resp.routes[i].endPoint),
                     [j \in 1..Len(resp.routes[i].waypoints) |->
                         ValidatedPoint(resp.routes[i].waypoints[j])])]]

\* ------------------------------------------------------------------------
\* TripService.generateTrip, entry
\* ------------------------------------------------------------------------
ValidateRequest ==
    /\ pc = "start"
    /\ IF destination = "" \/ tripType = ""
       THEN Throw(Err(TRUE, "VALIDATION_ERROR", "generic"))
       ELSE /\ pc' = "gen"
            /\ UNCHANGED << result, thrown, raised >>
    /\ UNCHANGED << user, now, sessions, authHist, running, parked, destination, tripType, orsLog, lastFetch, resolverLog, repairs, replaced, attempt, lastError, llmLog,
                    llmData, dayIdx, coordinates, routes, processedRoutes, llmTrip >>

\* ------------------------------------------------------------------------
\* GroqService.generateRoutePoints, one iteration of the attempt loop
\* ------------------------------------------------------------------------
\* a catch block that records the error and leaves the attempt counter alone
AttemptFailed_noCount(e) ==
    /\ lastError' = e
    /\ UNCHANGED << attempt, pc, result, thrown, raised, llmData >>

\* catch block of the loop
AttemptFailed(e) ==
    /\ lastError' = e
    /\ IF attempt = maxAttempts
       THEN /\ Throw(Err(TRUE, "TRIP_GENERATION_FAILED", e.msg))
            /\ UNCHANGED attempt
       ELSE /\ attempt' = attempt + 1
            /\ UNCHANGED << pc, result, thrown, raised >>
    /\ UNCHANGED llmData

\* the proposal is returned to generateRoute, which checks the city and the
\* trip type before it starts buildRealRoutes
AttemptSucceeded(resp) ==
    /\ llmData' = ParsedRoutePoints(resp)
    /\ IF resp.city = ""
       THEN Throw(Err(TRUE, "CITY_NOT_FOUND", "generic"))
       ELSE IF tripType \notin {"trek", "cycling"}
       THEN Throw(Err(TRUE, "INVALID_TRIP_TYPE", "generic"))
       ELSE /\ pc' = "build"
            /\ UNCHANGED << result, thrown, raised >>
    /\ UNCHANGED << attempt, lastError >>

GenerateAttempt ==
    /\ pc = "gen"
    /\ LET promptError == BuildRoutePromptError(IF attempt > 1 THEN lastError ELSE NoError)
       IN IF promptError # NoError
          THEN /\ AttemptFailed(promptError)
               /\ UNCHANGED llmLog
          ELSE \E resp \in LLMResponses :
                 LET e == IF CallError(resp) # NoError THEN CallError(resp)
                          ELSE ParseError(resp, tripType)
                 IN /\ llmLog' = Append(llmLog,
                          [attempt |-> attempt, isRetry |-> attempt > 1, failure |-> e.msg,
                           prompt |-> RoutePrompt(IF attempt > 1 THEN lastError ELSE NoError),
                           response |-> resp])
                    /\ IF e = NoError THEN AttemptSucceeded(resp) ELSE AttemptFailed(e)
    /\ UNCHANGED << user, now, sessions, authHist, running, parked, destination, tripType, orsLog, lastFetch, resolverLog, repairs, replaced, dayIdx, coordinates, routes,
                    processedRoutes, llmTrip >>

\* ------------------------------------------------------------------------
\* ORSService
\* ------------------------------------------------------------------------
\* ORSService.validateCoordinates: TRUE iff no coordinate is rejected
validateCoordinates(coords) ==
    \A i \in 1..Len(coords) :
        LET lng == coords[i][1]
            lat == coords[i][2]
        IN /\ ~(Less(lng, -180000000) \/ Greater(lng, 180000000))
           /\ ~(Less(lat, -90000000) \/ Greater(lat, 90000000))
           /\ ~(lat = 0 /\ lng = 0)

\* ORSService.isInPacificOcean
isInPacificOcean(lat, lng) ==
    /\ Less(lng, -100000000) \/ Greater(lng, 120000000)
    /\ Greater(MathAbs(lng), 140000000)

\* ORSService.isLikelyOnLand
isLikelyOnLand(lat, lng) ==
    IF Less(MathAbs(lat), 1000000) /\ Less(MathAbs(lng), 1000000) THEN FALSE
    ELSE IF isInPacificOcean(lat, lng) THEN FALSE
    ELSE TRUE

\* no coordinate is tested
validateLandCoordinates_none(coords) == TRUE

\* ORSService.validateLandCoordinates: TRUE iff no coordinate is rejected
validateLandCoordinates(coords) ==
    \A i \in 1..Len(coords) : isLikelyOnLand(coords[i][2], coords[i][1])

\* ORSService.fetchRoute: the error it throws for a request and the answer
\* of the routing service, or NoError
FetchError(coords, ans) ==
    IF Len(coords) < 2 THEN Err(TRUE, "VALIDATION_ERROR", "need 2 coordinates")
    ELSE IF ~validateCoordinates(coords) THEN Err(FALSE, "Error", "invalid coordinate")
    ELSE IF ~validateLandCoordinates(coords) THEN Err(FALSE, "Error", "in water")
    ELSE IF ans.kind = "unreachable" THEN Err(TRUE, "VALIDATION_ERROR", "routable point")
    ELSE IF ans.kind = "failed" THEN Err(TRUE, "EXTERNAL_SERVICE_ERROR", "ors")
    ELSE IF ans.kind = "misleading"
         THEN Err(TRUE, "EXTERNAL_SERVICE_ERROR", "routable point")
    ELSE NoError

\* ORSService.processRouteResponse: distance in km rounded to 2 decimals,
\* duration in minutes rounded to an integer; the geometry is the path the
\* service found for the request, recorded by the request's end points
processRouteResponse(coords, ans) ==
    [distance |-> 10 * RoundDiv(ans.meters, 10),
     duration |-> RoundDiv(ans.seconds, 60),
     geometry |-> << coords[1], coords[Len(coords)] >>]

\* error.message.includes('routable point')
MentionsRoutablePoint(e) == e.msg = "routable point"

\* one call of fetchRoute: the step of the pipeline that made it, the day,
\* the coordinates, and the error thrown or the metrics returned
NoMetrics == [distance |-> 0, duration |-> 0, geometry |-> << >>]
\* the request is posted before the coordinates are validated
RequestIssued_beforeValidation(coords) == Len(coords) >= 2

\* ORSService.fetchRoute: TRUE iff the call reaches fetch(url, ...), which
\* comes after the length check and the two validations
RequestIssued(coords) ==
    /\ Len(coords) >= 2
    /\ validateCoordinates(coords)
    /\ validateLandCoordinates(coords)

OrsCall(op, d, coords, ans) ==
    [kind |-> "fetch", op |-> op, day |-> d, coordinates |-> coords,
     sent |-> RequestIssued(coords),
     error |-> FetchError(coords, ans),
     metrics |-> IF FetchError(coords, ans) = NoError
                 THEN processRouteResponse(coords, ans) ELSE NoMetrics]

\* fetchRoute is called: the log keeps the step and the day of the call, and
\* whether the call threw the rejection that mentions a routable point
Fetched(op, d, coords, ans) ==
    /\ orsLog' = Append(orsLog, [op |-> op, day |-> d,
              unreachable |-> MentionsRoutablePoint(FetchError(coords, ans))])
    /\ lastFetch' = OrsCall(op, d, coords, ans)

\* ------------------------------------------------------------------------
\* CoordinateService
\* ------------------------------------------------------------------------
searchRadii == << 1000, 2000, 5000, 10000 >>
RingSteps == 8
CandidatesPerRadius == 12

\* radius * cos(45 deg) = radius * sin(45 deg), to the nearest micro-degree
Diagonal(radius) == (7071 * radius + 5000) \div 10000

\* CoordinateService.generateNearbyCoordinates: 8 points every 45 degrees
\* from north, then the four cardinal offsets; [lng, lat] pairs
generateNearbyCoordinates(lat, lng, radius) ==
    LET d == Diagonal(radius)
    IN << << lng, lat + radius >>, << lng + d, lat + d >>,
          << lng + radius, lat >>, << lng + d, lat - d >>,
          << lng, lat - radius >>, << lng - d, lat - d >>,
          << lng - radius, lat >>, << lng - d, lat + d >>,
          << lng, lat + radius >>, << lng, lat - radius >>,
          << lng + radius, lat >>, << lng - radius, lat >> >>

\* first candidate of the first ring: radius 0.001 at angle 0
FirstCandidate(c) == generateNearbyCoordinates(c[2], c[1], FirstSearchRadius)[1]

\* no coordinate
NoCoord == << >>

\* answers of the geocoder: a first feature with its coordinates, a response
\* that is not ok (or a failed fetch), a response without features
GeocoderOk(c) == [kind |-> "ok", centre |-> c]
GeocoderError == [kind |-> "error", centre |-> NoCoord]
GeocoderEmpty == [kind |-> "empty", centre |-> NoCoord]

\* CoordinateService.geocodeCityCenter: the error it throws, or NoError
GeocodeError(ans) ==
    IF ans.kind = "ok" THEN NoError
    ELSE Err(TRUE, "EXTERNAL_SERVICE_ERROR", "generic")

\* a probe is named by the index of its radius and its place in that ring;
\* accepted is the set of probes the routing service answers with ok (any
\* other probe gets a response that is not ok, or its fetch throws)
Probe(r, c) == << r, c >>
AllProbes == { Probe(r, c) : r \in 1..Len(searchRadii), c \in 1..CandidatesPerRadius }

\* the inner loop of findRoutableCoordinates over the candidates of radius
\* r: the place of the candidate it returns, the first one in ring order
\* whose probe is accepted, or 0 when it runs to its end
FirstAccepted(accepted, r) ==
    LET hits == { c \in 1..CandidatesPerRadius : Probe(r, c) \in accepted }
    IN IF hits = {} THEN 0 ELSE CHOOSE c \in hits : \A d \in hits : c <= d

\* the probes the inner loop sends for radius r, in order
RingProbes(accepted, r) ==
    LET stop == FirstAccepted(accepted, r)
    IN [c \in 1..(IF stop = 0 THEN CandidatesPerRadius ELSE stop) |-> Probe(r, c)]

\* the loop starts at the largest radius
SearchFrom_largestFirst(coord, accepted, r, sent) ==
    LET last == Len(searchRadii)
    IN [probes |-> RingProbes(accepted, last),
        found |-> IF FirstAccepted(accepted, last) # 0
                  THEN generateNearbyCoordinates(coord[2], coord[1],
                           searchRadii[last])[FirstAccepted(accepted, last)]
                  ELSE NoCoord]

\* CoordinateService.findRoutableCoordinates, the outer loop from radius r
\* on, after the probes in sent: the probes sent, in order, and the
\* candidate returned (NoCoord when the loop runs to its end)
RECURSIVE SearchFrom(_, _, _, _)
SearchFrom(coord, accepted, r, sent) ==
    IF r > Len(searchRadii) THEN [probes |-> sent, found |-> NoCoord]
    ELSE IF FirstAccepted(accepted, r) # 0
    THEN [probes |-> sent \o RingProbes(accepted, r),
          found |-> generateNearbyCoordinates(coord[2], coord[1],
                        searchRadii[r])[FirstAccepted(accepted, r)]]
    ELSE SearchFrom(coord, accepted, r + 1, sent \o RingProbes(accepted, r))

\* the environment of one repair: which probes are accepted, what the
\* geocoder answers to its first and to its second call for a point, and
\* whether the routing service would accept the original point itself
ResolverEnv(acc, g1, g2, orig) ==
    [accepted |-> acc, geocoder |-> << g1, g2 >>, originalRoutable |-> orig]

\* the fallback returns the original point when the geocoder fails
Resolution_originalOnFailure(coord, env) ==
    LET s == SearchFrom(coord, env.accepted, 1, << >>)
        g == env.geocoder[1]
    IN [point |-> coord, env |-> env, probes |-> s.probes,
        geocoded |-> IF s.found # NoCoord THEN 0 ELSE 1,
        result |-> IF s.found # NoCoord THEN s.found
                   ELSE IF g.kind = "ok" THEN g.centre ELSE coord,
        error |-> NoError]

\* CoordinateService.findRoutableCoordinates: what one call does (probes,
\* geocoder calls) and how it ends (result, or error thrown)
Resolution(coord, env) ==
    LET s == SearchFrom(coord, env.accepted, 1, << >>)
        g == env.geocoder[1]
    IN [point |-> coord, env |-> env, probes |-> s.probes,
        geocoded |-> IF s.found # NoCoord THEN 0 ELSE 1,
        result |-> IF s.found # NoCoord THEN s.found
                   ELSE IF g.kind = "ok" THEN g.centre ELSE NoCoord,
        error |-> IF s.found # NoCoord THEN NoError ELSE GeocodeError(g)]

\* the loop stops at the first point whose resolution fails and keeps the
\* points resolved so far
FixFrom_stopQuietly(coords, env, i) ==
    LET run == Resolution(coords[i], env)
    IN [fixed |-> IF run.error = NoError THEN << run.result >> ELSE << >>,
        runs |-> << run >>, error |-> NoError]

\* LLMService.fixNonRoutableCoordinates, the loop from coordinate i on: the
\* repaired coordinates, the resolutions made, and the error the loop ends
\* with; a resolution that throws is followed by one more call of the
\* geocoder, whose error is not caught
RECURSIVE FixFrom(_, _, _)
FixFrom(coords, env, i) ==
    IF i > Len(coords) THEN [fixed |-> << >>, runs |-> << >>, error |-> NoError]
    ELSE LET run == Resolution(coords[i], env)
             second == env.geocoder[2]
         IN IF run.error = NoError
            THEN LET rest == FixFrom(coords, env, i + 1)
                 IN [fixed |-> << run.result >> \o rest.fixed,
                     runs |-> << run >> \o rest.runs, error |-> rest.error]
            ELSE IF second.kind = "ok"
            THEN LET rest == FixFrom(coords, env, i + 1)
                 IN [fixed |-> << second.centre >> \o rest.fixed,
                     runs |-> << [run EXCEPT !.geocoded = 2] >> \o rest.runs,
                     error |-> rest.error]
            ELSE [fixed |-> << >>, runs |-> << [run EXCEPT !.geocoded = 2] >>,
                  error |-> GeocodeError(second)]

fixNonRoutableCoordinates(coords, env) == FixFrom(coords, env, 1)

\* a centroid the geocoder may answer that lies in the sea
WaterCentre == Coord(SeaPoint)

\* environments of a repair inside a request: the first candidate is
\* accepted; no candidate is accepted and the geocoder answers a point in
\* the sea, answers at its second call only, or never answers
AllPipelineEnvs ==
    { ResolverEnv({ Probe(1, 1) }, GeocoderOk(CityCentre), GeocoderOk(CityCentre), FALSE),
      ResolverEnv({}, GeocoderOk(WaterCentre), GeocoderOk(WaterCentre), FALSE),
      ResolverEnv({}, GeocoderError, GeocoderOk(CityCentre), FALSE),
      ResolverEnv({}, GeocoderEmpty, GeocoderError, FALSE) }

PipelineEnvs ==
    IF Interleaved
    THEN { ResolverEnv({ Probe(1, 1) }, GeocoderOk(CityCentre), GeocoderOk(CityCentre), FALSE) }
    ELSE AllPipelineEnvs

\* ------------------------------------------------------------------------
\* LLMService.buildRealRoutes
\* ------------------------------------------------------------------------
Profile == IF tripType = "trek" THEN "foot-walking" ELSE "cycling-regular"

WaypointCoords(w) == [j \in 1..Len(w) |-> Coord(w[j])]

\* coordinates of the request for one proposed day
DayCoordinates(routeData) ==
    << Coord(routeData.startPoint) >> \o WaypointCoords(routeData.waypoints)
        \o << Coord(routeData.endPoint) >>

Route(d, s, e, w, m) ==
    [day |-> d, startPoint |-> s, endPoint |-> e, waypoints |-> w,
     distance |-> m.distance, duration |-> m.duration, geometry |-> m.geometry]

\* the constraints of the trip type start after every day
NextDayOrConstraints_enforceEarly(rs) ==
    /\ dayIdx' = 1
    /\ pc' = IF tripType = "trek" THEN "trim" ELSE "cycling"
    /\ processedRoutes' = IF tripType = "trek" THEN rs ELSE processedRoutes

\* the loop of buildRealRoutes moves to the next day, or buildRealRoutes
\* returns rs and generateRoute moves on to the constraints of the trip
\* type; processTrekRoutes starts from a shallow copy of rs
NextDayOrConstraints(rs) ==
    IF dayIdx < Len(llmData.routes)
    THEN /\ dayIdx' = dayIdx + 1
         /\ pc' = "build"
         /\ UNCHANGED processedRoutes
    ELSE /\ dayIdx' = 1
         /\ pc' = IF tripType = "trek" THEN "trim" ELSE "cycling"
         /\ processedRoutes' = IF tripType = "trek" THEN rs ELSE processedRoutes

\* buildRealRoutes, one iteration: first routing request of the day
BuildDay ==
    /\ pc = "build"
    /\ LET routeData == llmData.routes[dayIdx]
           coords == DayCoordinates(routeData)
       IN \E ans \in ORSAnswers(Profile) :
            LET e == FetchError(coords, ans)
            IN /\ Fetched("build", dayIdx, coords, ans)
               /\ IF e = NoError
                  THEN /\ routes' = Append(routes,
                             Route(routeData.day, routeData.startPoint, routeData.endPoint,
                                   routeData.waypoints, processRouteResponse(coords, ans)))
                       /\ NextDayOrConstraints(routes')
                       /\ UNCHANGED << coordinates, repairs, result, thrown, raised >>
                  ELSE IF MentionsRoutablePoint(e)
                  THEN /\ repairs < MaxRepairs
                       /\ pc' = "fix"
                       /\ coordinates' = coords
                       /\ repairs' = repairs + 1
                       /\ UNCHANGED << routes, processedRoutes, dayIdx, result, thrown, raised >>
                  ELSE /\ Throw(e)
                       /\ UNCHANGED << routes, processedRoutes, dayIdx, coordinates, repairs >>
    /\ UNCHANGED << user, now, sessions, authHist, running, parked, destination, tripType, resolverLog, replaced, attempt, lastError, llmLog,
                    llmData, llmTrip >>

\* buildRealRoutes, catch block: coordinate repair of the points of the day
FixCoordinates ==
    /\ pc = "fix"
    /\ \E env \in PipelineEnvs :
         LET fix == fixNonRoutableCoordinates(coordinates, env)
         IN /\ resolverLog' = resolverLog \o fix.runs
            /\ IF fix.error = NoError
               THEN /\ coordinates' = fix.fixed
                    /\ pc' = "retry"
                    /\ UNCHANGED << result, thrown, raised >>
               ELSE /\ Throw(fix.error)
                    /\ UNCHANGED coordinates
    /\ UNCHANGED << user, now, sessions, authHist, running, parked, destination, tripType, orsLog, lastFetch, repairs, replaced, attempt, lastError, llmLog,
                    llmData, dayIdx, routes, processedRoutes, llmTrip >>

\* names of the repaired waypoints
FixedWaypoints(routeData, fixed) ==
    [j \in 1..(Len(fixed) - 2) |->
        Pt(fixed[j + 1][2], fixed[j + 1][1],
           IF j <= Len(routeData.waypoints) /\ routeData.waypoints[j].name # ""
           THEN routeData.waypoints[j].name ELSE "Waypoint")]

\* buildRealRoutes, catch block: the one retry with the repaired coordinates
RetryDay ==
    /\ pc = "retry"
    /\ LET routeData == llmData.routes[dayIdx]
           n == Len(coordinates)
       IN \E ans \in ORSAnswers(Profile) :
            /\ Fetched("retry", dayIdx, coordinates, ans)
            /\ IF FetchError(coordinates, ans) = NoError
               THEN /\ routes' = Append(routes,
                          Route(routeData.day,
                                Pt(coordinates[1][2], coordinates[1][1], routeData.startPoint.name),
                                Pt(coordinates[n][2], coordinates[n][1], routeData.endPoint.name),
                                FixedWaypoints(routeData, coordinates),
                                processRouteResponse(coordinates, ans)))
                    /\ NextDayOrConstraints(routes')
                    /\ UNCHANGED << result, thrown, raised >>
               ELSE /\ ThrowWrapped(FetchError(coordinates, ans),
                                    Err(TRUE, "TRIP_GENERATION_FAILED", "generic"))
                    /\ UNCHANGED << routes, processedRoutes, dayIdx >>
    /\ UNCHANGED << user, now, sessions, authHist, running, parked, destination, tripType, resolverLog, repairs, replaced, attempt, lastError, llmLog, llmData,
                    coordinates, llmTrip >>

\* ------------------------------------------------------------------------
\* LLMService.processTrekRoutes
\* ------------------------------------------------------------------------
\* waypoints.slice(0, k)
Slice(w, k) == SubSeq(w, 1, IF k < Len(w) THEN k ELSE Len(w))

\* every waypoint is kept
ReducedWaypoints_all(w) == w

\* waypoints.length > 2 ? waypoints.slice(0, 2) : waypoints.slice(0, 1)
ReducedWaypoints(w) == IF Len(w) > 2 THEN Slice(w, 2) ELSE Slice(w, 1)

\* the end point a trimmed day is routed to: the next day's start, or the
\* day's own end on the last day
TrimTarget(i) ==
    IF i < Len(processedRoutes)
    THEN processedRoutes[i + 1].startPoint
    ELSE processedRoutes[i].endPoint

\* the trimming loop moves to the next day, or to the continuity pass
NextDayOrContinuity ==
    IF dayIdx < Len(processedRoutes)
    THEN /\ dayIdx' = dayIdx + 1
         /\ pc' = "trim"
    ELSE /\ dayIdx' = 1
         /\ pc' = "continuity"

\* a day outside the range of 5 to 15 km is re-routed
OverTrekLimit_orBelowMinimum(d) == d > TrekMaxDistance \/ d < TrekMinDistance

\* route.distance > 15
OverTrekLimit(d) == d > TrekMaxDistance

\* trimming loop, one iteration: a day over 15 km is re-routed through its
\* first waypoints
TrimDay ==
    /\ pc = "trim"
    /\ LET route == processedRoutes[dayIdx]
           reduced == ReducedWaypoints(route.waypoints)
           coords == << Coord(route.startPoint) >> \o WaypointCoords(reduced)
                        \o << Coord(TrimTarget(dayIdx)) >>
       IN IF OverTrekLimit(route.distance)
          THEN \E ans \in ORSAnswers("foot-walking") :
                 LET e == FetchError(coords, ans)
                     m == processRouteResponse(coords, ans)
                 IN /\ Fetched("trim", dayIdx, coords, ans)
                    /\ IF e # NoError
                       THEN /\ Throw(e)
                            /\ UNCHANGED << processedRoutes, replaced, dayIdx >>
                       ELSE /\ processedRoutes' = [processedRoutes EXCEPT ![dayIdx] =
                                  Route(route.day, route.startPoint, route.endPoint, reduced, m)]
                            /\ replaced' = replaced \cup {dayIdx}
                            /\ IF OverTrekLimit(m.distance)
                               THEN /\ pc' = "direct"
                                    /\ UNCHANGED dayIdx
                               ELSE NextDayOrContinuity
                            /\ UNCHANGED << result, thrown, raised >>
             ELSE /\ NextDayOrContinuity
                  /\ UNCHANGED << orsLog, lastFetch, processedRoutes, replaced, result, thrown, raised >>
    /\ UNCHANGED << user, now, sessions, authHist, running, parked, destination, tripType, resolverLog, repairs, attempt, lastError, llmLog, llmData,
                    coordinates, routes, llmTrip >>

\* trimming loop: the day is still over 15 km and is routed without waypoints
DirectDay ==
    /\ pc = "direct"
    /\ LET route == processedRoutes[dayIdx]
           coords == << Coord(route.startPoint), Coord(TrimTarget(dayIdx)) >>
       IN \E ans \in ORSAnswers("foot-walking") :
            LET e == FetchError(coords, ans)
            IN /\ Fetched("direct", dayIdx, coords, ans)
               /\ IF e # NoError
                  THEN /\ Throw(e)
                       /\ UNCHANGED << processedRoutes, dayIdx >>
                  ELSE /\ processedRoutes' = [processedRoutes EXCEPT ![dayIdx] =
                             Route(route.day, route.startPoint, route.endPoint, << >>,
                                   processRouteResponse(coords, ans))]
                       /\ NextDayOrContinuity
                       /\ UNCHANGED << result, thrown, raised >>
    /\ UNCHANGED << user, now, sessions, authHist, running, parked, destination, tripType, resolverLog, repairs, replaced, attempt, lastError, llmLog,
                    llmData, coordinates, routes, llmTrip >>

\* the loop compares the points and never assigns
ContinuousFrom_noAssign(rs, i) == rs

\* the loop moves the end of the day to the start of the next day
ContinuousFrom_endMoved(rs, i) ==
    [k \in 1..Len(rs) |->
        IF k < Len(rs) /\ ~isSamePoint(rs[k].endPoint, rs[k + 1].startPoint)
        THEN [rs[k] EXCEPT !.endPoint = rs[k + 1].startPoint]
        ELSE rs[k]]

\* the continuity loop from day i on: the next day's start becomes a copy
\* of the day's end when the two are not the same point
RECURSIVE ContinuousFrom(_, _)
ContinuousFrom(rs, i) ==
    IF i >= Len(rs) THEN rs
    ELSE IF ~isSamePoint(rs[i].endPoint, rs[i + 1].startPoint)
    THEN ContinuousFrom([rs EXCEPT ![i + 1].startPoint = rs[i].endPoint], i + 1)
    ELSE ContinuousFrom(rs, i + 1)

\* the loop assigns to route objects; a day the trimming loop did not
\* replace is still the object held by the routes array of generateRoute
EnsureContinuous ==
    /\ pc = "continuity"
    /\ processedRoutes' = ContinuousFrom(processedRoutes, 1)
    /\ routes' = [i \in 1..Len(routes) |->
                    IF i \in replaced THEN routes[i]
                    ELSE [routes[i] EXCEPT !.startPoint = processedRoutes'[i].startPoint]]
    /\ pc' = "closure"
    /\ UNCHANGED << user, now, sessions, authHist, running, parked, destination, tripType, orsLog, lastFetch, resolverLog, repairs, replaced, attempt, lastError, llmLog,
                    llmData, dayIdx, coordinates, llmTrip, result, thrown, raised >>

\* the return route starts where the last day ends
ReturnOrigin_dayEnd(lastRoute) == lastRoute.endPoint

\* where the return route of the loop closure starts: the last waypoint of
\* the last day, or its start when it has no waypoints
ReturnOrigin(lastRoute) ==
    IF Len(lastRoute.waypoints) > 0
    THEN lastRoute.waypoints[Len(lastRoute.waypoints)]
    ELSE lastRoute.startPoint

\* the replacement keeps the last day's own end point
ClosedLastRoute_keepEnd(lastRoute, firstDayStart, m) ==
    Route(lastRoute.day, lastRoute.startPoint, lastRoute.endPoint, lastRoute.waypoints, m)

\* the last day after loop closure: it ends at a copy of the first day's
\* start and takes the metrics of the return route
ClosedLastRoute(lastRoute, firstDayStart, m) ==
    Route(lastRoute.day, lastRoute.startPoint, firstDayStart, lastRoute.waypoints, m)

\* loop closure: the last day ends at the first day's start
CloseLoop ==
    /\ pc = "closure"
    /\ LET firstDayStart == processedRoutes[1].startPoint
           lastRoute == processedRoutes[Len(processedRoutes)]
           coords == << Coord(ReturnOrigin(lastRoute)), Coord(firstDayStart) >>
       IN IF isSamePoint(firstDayStart, lastRoute.endPoint)
          THEN /\ pc' = "totals"
               /\ UNCHANGED << orsLog, lastFetch, processedRoutes, result, thrown, raised >>
          ELSE \E ans \in ORSAnswers("foot-walking") :
                 LET e == FetchError(coords, ans)
                 IN /\ Fetched("closure", Len(processedRoutes), coords, ans)
                    /\ IF e # NoError
                       THEN /\ Throw(e)
                            /\ UNCHANGED processedRoutes
                       ELSE /\ processedRoutes' = [processedRoutes EXCEPT ![Len(processedRoutes)] =
                                  ClosedLastRoute(lastRoute, firstDayStart,
                                                  processRouteResponse(coords, ans))]
                            /\ pc' = "totals"
                            /\ UNCHANGED << result, thrown, raised >>
    /\ UNCHANGED << user, now, sessions, authHist, running, parked, destination, tripType, resolverLog, repairs, replaced, attempt, lastError, llmLog,
                    llmData, dayIdx, coordinates, routes, llmTrip >>

\* ------------------------------------------------------------------------
\* LLMService.processCyclingRoutes
\* ------------------------------------------------------------------------
\* the lower bound of validateCycling used in processCyclingRoutes
CyclingDistanceOutOfRange_validateMinimum(d) ==
    d < CyclingValidateMinDistance \/ d > CyclingMaxDistance

CyclingDistanceOutOfRange(d) == d < CyclingMinDistance \/ d > CyclingMaxDistance

\* the error processCyclingRoutes throws, or NoError; a gap between day 1
\* and day 2 only logs a warning
ProcessCyclingError(rs) ==
    IF Len(rs) # CyclingDays THEN Err(FALSE, "Error", "cycling days")
    ELSE IF \E i \in 1..Len(rs) : CyclingDistanceOutOfRange(rs[i].distance)
    THEN Err(FALSE, "Error", "cycling distance")
    ELSE IF isSamePoint(rs[1].startPoint, rs[2].endPoint)
    THEN Err(FALSE, "Error", "cycling loop")
    ELSE NoError

\* processCyclingRoutes returns the array it was given
ProcessCycling ==
    /\ pc = "cycling"
    /\ IF ProcessCyclingError(routes) # NoError
       THEN /\ Throw(ProcessCyclingError(routes))
            /\ UNCHANGED processedRoutes
       ELSE /\ pc' = "totals"
            /\ processedRoutes' = routes
            /\ UNCHANGED << result, thrown, raised >>
    /\ UNCHANGED << user, now, sessions, authHist, running, parked, destination, tripType, orsLog, lastFetch, resolverLog, repairs, replaced, attempt, lastError, llmLog,
                    llmData, dayIdx, coordinates, routes, llmTrip >>

\* ------------------------------------------------------------------------
\* ConstraintService
\* ------------------------------------------------------------------------
\* ConstraintService.validatePoint: TRUE iff the point is accepted
ConstraintValidatePoint(p) ==
    /\ p # NoValue
    /\ ~(p.lat < -90000000 \/ p.lat > 90000000)
    /\ ~(p.lng < -180000000 \/ p.lng > 180000000)
    /\ p.name # ""

\* the structure check without the checks of the points
validateRouteStructure_noPoints(route) ==
    /\ route.day >= 1
    /\ route.distance >= 0
    /\ route.duration >= 0
    /\ Len(route.geometry) >= 2

\* ConstraintService.validateRouteStructure: TRUE iff the route is accepted
validateRouteStructure(route) ==
    /\ route.day >= 1
    /\ route.distance >= 0
    /\ route.duration >= 0
    /\ ConstraintValidatePoint(route.startPoint)
    /\ ConstraintValidatePoint(route.endPoint)
    /\ \A j \in 1..Len(route.waypoints) : ConstraintValidatePoint(route.waypoints[j])
    /\ Len(route.geometry) >= 2

\* the lower bound of validateCycling used in validateTrek
TrekDistanceTooShort_cyclingMinimum(d) == d < CyclingValidateMinDistance

TrekDistanceTooShort(d) == d < TrekMinDistance
TrekDistanceTooLong(d) == d > TrekMaxDistance

\* ConstraintService.validateTrek: TRUE iff it returns without throwing; a
\* gap between days or an open loop only logs a warning
validateTrek(trip) ==
    /\ trip.tripType = "trek"
    /\ ~(trip.estimatedDays < TrekMinDays \/ trip.estimatedDays > TrekMaxDays)
    /\ Len(trip.routes) = trip.estimatedDays
    /\ \A i \in 1..Len(trip.routes) :
          /\ ~TrekDistanceTooShort(trip.routes[i].distance)
          /\ ~TrekDistanceTooLong(trip.routes[i].distance)
          /\ validateRouteStructure(trip.routes[i])

\* a gap between the days only logs a warning, as in validateTrek
CyclingContinuous_warnOnly(rs) == TRUE

\* day 1 end must equal day 2 start
CyclingContinuous(rs) == ConstraintIsSamePoint(rs[1].endPoint, rs[2].startPoint)

\* ConstraintService.validateCycling: TRUE iff it returns without throwing
validateCycling(trip) ==
    /\ trip.tripType = "cycling"
    /\ trip.estimatedDays = CyclingDays
    /\ Len(trip.routes) = CyclingDays
    /\ \A i \in 1..Len(trip.routes) :
          /\ ~(trip.routes[i].distance < CyclingValidateMinDistance)
          /\ ~(trip.routes[i].distance > CyclingMaxDistance)
          /\ validateRouteStructure(trip.routes[i])
    /\ CyclingContinuous(trip.routes)
    /\ ~ConstraintIsSamePoint(trip.routes[1].startPoint, trip.routes[2].endPoint)

\* ------------------------------------------------------------------------
\* LLMService.generateRoute, steps 4 to 8
\* ------------------------------------------------------------------------
\* The distances are JavaScript numbers, IEEE-754 doubles.  A double x of
\* 4 or more is written [c |-> c, r |-> r] with x = c/100 + r/(100 * 2^50):
\* c is x in hundredths of a km as the stored 2-decimal distances give it,
\* r is what the binary representation adds to it.  Every routing answer of
\* the model is a distance of more than 4 km.

\* the gap between neighbouring doubles around c/100, in units of 2^-50
RECURSIVE Ulp(_)
Ulp(c) == IF c < 800 THEN 1 ELSE 2 * Ulp(c \div 2)

\* c/100 is a power of two
RECURSIVE IsPowerOfTwo(_)
IsPowerOfTwo(c) ==
    IF c <= 400 THEN c = 400 ELSE c % 2 = 0 /\ IsPowerOfTwo(c \div 2)

\* the gap between neighbouring doubles around c/100 + r/(100 * 2^50)
UlpOf(c, r) ==
    IF r < 0 /\ c > 400 /\ IsPowerOfTwo(c) THEN Ulp(c) \div 2 ELSE Ulp(c)

\* 2^k modulo m
RECURSIVE TwoPowerMod(_, _)
TwoPowerMod(k, m) == IF k = 0 THEN 1 % m ELSE (2 * TwoPowerMod(k - 1, m)) % m

\* round to nearest, ties to even: the r of the multiple of u * 2^-50
\* nearest to c/100 + r/(100 * 2^50)
RoundToDouble(c, r, u) ==
    LET m == 200 * u
        rho2 == ((c % m) * TwoPowerMod(50, m) + r) % m
        rho == rho2 % (100 * u)
    IN IF 2 * rho < 100 * u THEN r - rho
       ELSE IF 2 * rho > 100 * u THEN r + (100 * u - rho)
       ELSE IF rho2 < 100 * u THEN r - rho
       ELSE r + (100 * u - rho)

\* the double a stored distance of c hundredths of a km is
Double(c) == [c |-> c, r |-> RoundToDouble(c, 0, Ulp(c))]

\* a + b in doubles
DoubleAdd(a, b) ==
    LET c == a.c + b.c
        r == a.r + b.r
    IN [c |-> c, r |-> RoundToDouble(c, r, UlpOf(c, r))]

\* routes.reduce((sum, r) => sum + r.distance, 0) from route i on; the
\* first addition, 0 + x, is exact
RECURSIVE DoubleSumFrom(_, _, _)
DoubleSumFrom(rs, i, sum) ==
    IF i > Len(rs) THEN sum
    ELSE DoubleSumFrom(rs, i + 1,
             IF i = 1 THEN Double(rs[i].distance \div 10)
             ELSE DoubleAdd(sum, Double(rs[i].distance \div 10)))

\* half the gap between a threshold and the next double above it, in units
\* of 2^-50; the mantissa of each threshold is even, so a quotient half way
\* rounds to the threshold
HalfUlpAbove(th) == Ulp(100 * th) \div 2

\* totalDistance / days <= th, the quotient being rounded to a double
AvgPerDayAtMost(totalDistance, days, th) ==
    \/ totalDistance.c < 100 * th * days
    \/ /\ totalDistance.c = 100 * th * days
       /\ totalDistance.r <= 100 * HalfUlpAbove(th) * days

\* LLMService.calculateDifficulty: avgPerDay = totalDistance / days
calculateDifficulty(totalDistance, days, type) ==
    IF type = "trek"
    THEN IF AvgPerDayAtMost(totalDistance, days, 8) THEN "easy"
         ELSE IF AvgPerDayAtMost(totalDistance, days, 12) THEN "moderate" ELSE "hard"
    ELSE IF AvgPerDayAtMost(totalDistance, days, 30) THEN "easy"
         ELSE IF AvgPerDayAtMost(totalDistance, days, 50) THEN "moderate" ELSE "hard"

\* the totals taken over the array buildRealRoutes returned
TotalledRoutes_beforeRepair == routes

\* the routes the totals are taken over: validatedRoutes
TotalledRoutes == processedRoutes

\* the trip object generateRoute builds
BuildTrip ==
    LET totalDistance == SumOver(TotalledRoutes, 1, "distance")
        totalDuration == SumOver(TotalledRoutes, 1, "duration")
    IN [destination |-> destination,
        city |-> llmData.city,
        tripType |-> llmData.tripType,
        totalDistance |-> 10 * RoundDiv(totalDistance, 10),
        estimatedDuration |-> totalDuration,
        estimatedDays |-> llmData.estimatedDays,
        routes |-> processedRoutes,
        difficulty |-> calculateDifficulty(DoubleSumFrom(TotalledRoutes, 1, Double(0)),
                                           llmData.estimatedDays, tripType)]

\* LLMService.validateFinalTrip: TRUE iff it returns without throwing
validateFinalTrip(trip) ==
    /\ \A i \in 1..Len(trip.routes) :
          /\ Len(trip.routes[i].geometry) > 0
          /\ trip.routes[i].startPoint # NoValue
          /\ trip.routes[i].endPoint # NoValue
    /\ IF trip.tripType = "trek" THEN validateTrek(trip) ELSE validateCycling(trip)

\* totals, destination image (the image service always answers, with a
\* placeholder at worst), trip object, final validation
Assemble ==
    /\ pc = "totals"
    /\ IF validateFinalTrip(BuildTrip)
       THEN /\ llmTrip' = BuildTrip
            /\ pc' = "validated"
            /\ UNCHANGED << result, thrown, raised >>
       ELSE /\ Throw(Err(FALSE, "Error", "final validation"))
            /\ UNCHANGED llmTrip
    /\ UNCHANGED << user, now, sessions, authHist, running, parked, destination, tripType, orsLog, lastFetch, resolverLog, repairs, replaced, attempt, lastError, llmLog,
                    llmData, dayIdx, coordinates, routes, processedRoutes >>

\* ------------------------------------------------------------------------
\* TripService.generateTrip, after generateRoute returned
\* ------------------------------------------------------------------------
WeatherAnswers ==
    IF Interleaved THEN {"ok"} ELSE {"ok", "routes forecast fails", "trip forecast fails"}

FinishTrip ==
    /\ pc = "validated"
    /\ \E w \in WeatherAnswers :
         IF ~(IF tripType = "trek" THEN validateTrek(llmTrip) ELSE validateCycling(llmTrip))
         THEN Throw(Err(FALSE, "Error", "validation"))
         ELSE IF w = "routes forecast fails"
         THEN Throw(Err(TRUE, "EXTERNAL_SERVICE_ERROR", "generic"))
         ELSE IF w = "trip forecast fails"
         THEN Throw(Err(FALSE, "Error", "weather"))
         ELSE /\ result' = llmTrip
              /\ pc' = "done"
              /\ UNCHANGED << thrown, raised >>
    /\ UNCHANGED << user, now, sessions, authHist, running, parked, destination, tripType, orsLog, lastFetch, resolverLog, repairs, replaced, attempt, lastError, llmLog,
                    llmData, dayIdx, coordinates, routes, processedRoutes, llmTrip >>

Next ==
    \/ ValidateRequest
    \/ GenerateAttempt
    \/ BuildDay
    \/ FixCoordinates
    \/ RetryDay
    \/ TrimDay
    \/ DirectDay
    \/ EnsureContinuous
    \/ CloseLoop
    \/ ProcessCycling
    \/ Assemble
    \/ FinishTrip

Spec == Init /\ [][Next]_vars

\* the request as the event loop runs it: every call of an external
\* service returns or fails, and the continuation of the await then runs
TerminationSpec == Init /\ [][Next]_vars /\ WF_vars(Next)

\* ------------------------------------------------------------------------
\* generateRoute from step 4 on, for routes the constraints have accepted
\* ------------------------------------------------------------------------
\* distances of the accepted days, in thousandths of a km
AcceptedDistances(type) ==
    IF type = "trek" THEN { 5000, 7940, 8000, 11060, 12000 }
    ELSE { 10000, 30000, 50000, 60000 }

\* an accepted day: a trek day is a loop at PA, the two cycling days lead
\* from PA to PD and on to the last point of the pool
AcceptedStart(type, d) == IF type = "trek" \/ d = 1 THEN PA ELSE PD
AcceptedEnd(type, d) ==
    IF type = "trek" THEN PA ELSE IF d = 1 THEN PD ELSE WaypointPool[Len(WaypointPool)]
AcceptedRoute(type, d, dist) ==
    Route(d, AcceptedStart(type, d), AcceptedEnd(type, d), << >>,
          [distance |-> dist, duration |-> 90,
           geometry |-> << Coord(AcceptedStart(type, d)), Coord(AcceptedEnd(type, d)) >>])

\* generateRoute after processTrekRoutes or processCyclingRoutes returned,
\* no day having needed a repair or a change
DifficultyInit ==
    \E type \in {"trek", "cycling"}, n \in 1..MaxTrekDays :
      /\ type = "cycling" => n = CyclingDays
      /\ \E ds \in [1..n -> AcceptedDistances(type)] :
           /\ destination = "Paris"
           /\ tripType = type
           /\ pc = "totals"
           /\ attempt = 1
           /\ lastError = NoError
           /\ llmLog = << [attempt |-> 1, isRetry |-> FALSE, failure |-> "none"] >>
           /\ llmData = [city |-> "Paris, France", tripType |-> type, estimatedDays |-> n,
                         routes |-> [d \in 1..n |->
                             DayProposal(d, AcceptedStart(type, d), AcceptedEnd(type, d), << >>)]]
           /\ dayIdx = 1
           /\ coordinates = << >>
           /\ routes = [d \in 1..n |-> AcceptedRoute(type, d, ds[d])]
           /\ processedRoutes = routes
           /\ replaced = {}
           /\ repairs = 0
           /\ llmTrip = NoValue
           /\ result = NoValue
           /\ thrown = NoError
           /\ raised = NoError
           /\ orsLog = [d \in 1..n |-> [op |-> "build", day |-> d, unreachable |-> FALSE]]
           /\ lastFetch = [kind |-> "fetch", op |-> "build", day |-> n,
                           coordinates |-> routes[n].geometry, error |-> NoError,
                           metrics |-> [distance |-> ds[n], duration |-> 90,
                                        geometry |-> routes[n].geometry]]
           /\ resolverLog = << >>
           /\ running = 0
           /\ parked = NoValue
           /\ NoAuthCalls

DifficultyNext ==
    \/ Assemble
    \/ FinishTrip

DifficultySpec == DifficultyInit /\ [][DifficultyNext]_vars

\* ------------------------------------------------------------------------
\* One call of CoordinateService.findRoutableCoordinates
\* ------------------------------------------------------------------------
\* coordinates the resolver is called for
ResolverPoints == { Coord(PA), Coord(PD), CityCentre }

\* sets of accepted probes: none, any single one, and pairs of a few
AcceptedPairs ==
    { { Probe(2, 1), Probe(4, 12) }, { Probe(1, 3), Probe(1, 11) },
      { Probe(1, 12), Probe(2, 1) }, { Probe(3, 8), Probe(3, 9) } }
AcceptedSets == { {} } \cup { { p } : p \in AllProbes } \cup AcceptedPairs \cup { AllProbes }

ResolverEnvs ==
    { ResolverEnv(acc, g, g, orig) :
        acc \in AcceptedSets,
        g \in { GeocoderOk(CityCentre), GeocoderError, GeocoderEmpty },
        orig \in BOOLEAN }

\* the caller holds one coordinate to resolve
ResolverInit ==
    /\ \E c \in ResolverPoints : coordinates = << c >>
    /\ pc = "resolve"
    /\ destination = "Paris"
    /\ tripType = "trek"
    /\ attempt = 0
    /\ lastError = NoError
    /\ llmLog = << >>
    /\ llmData = NoValue
    /\ dayIdx = 1
    /\ routes = << >>
    /\ processedRoutes = << >>
    /\ replaced = {}
    /\ repairs = 0
    /\ llmTrip = NoValue
    /\ result = NoValue
    /\ thrown = NoError
    /\ raised = NoError
    /\ orsLog = << >>
    /\ lastFetch = NoValue
    /\ resolverLog = << >>
    /\ running = 0
    /\ parked = NoValue
    /\ NoAuthCalls

\* findRoutableCoordinates(coordinates[0], cityName, profile) runs to its end
Resolve ==
    /\ pc = "resolve"
    /\ \E env \in ResolverEnvs :
         resolverLog' = Append(resolverLog, Resolution(coordinates[1], env))
    /\ pc' = "resolved"
    /\ UNCHANGED << user, now, sessions, authHist, running, parked, destination, tripType, attempt, lastError, llmLog, llmData, dayIdx,
                    coordinates, routes, processedRoutes, replaced, repairs, llmTrip,
                    result, thrown, raised, orsLog, lastFetch >>

ResolverNext == Resolve

ResolverSpec == ResolverInit /\ [][ResolverNext]_vars

\* ------------------------------------------------------------------------
\* The pre-validation of fetchRoute on one coordinate
\* ------------------------------------------------------------------------
\* latitudes and longitudes around every threshold of the two checks, the
\* numbers that are not finite, and the cities Paris, Sydney and Anchorage
ValidatorLats ==
    { NaN, NegInfinity, Infinity, -90000001, -90000000, -33870000, -1000000, -999999,
      -1, 0, 1, 999999, 1000000, 48850000, 61200000, 90000000, 90000001 }
ValidatorLngs ==
    { NaN, NegInfinity, Infinity, -180000001, -180000000, -149900000, -140000001,
      -140000000, -100000001, -100000000, -1000000, -999999, -1, 0, 1, 999999,
      1000000, 2350000, 120000000, 120000001, 140000000, 140000001, 151210000,
      180000000, 180000001 }

ValidatorInit ==
    /\ \E lat \in ValidatorLats, lng \in ValidatorLngs : coordinates = << << lng, lat >> >>
    /\ pc = "prevalidate"
    /\ destination = "Paris"
    /\ tripType = "trek"
    /\ attempt = 1
    /\ lastError = NoError
    /\ llmLog = << >>
    /\ llmData = NoValue
    /\ dayIdx = 1
    /\ routes = << >>
    /\ processedRoutes = << >>
    /\ replaced = {}
    /\ repairs = 0
    /\ llmTrip = NoValue
    /\ result = NoValue
    /\ thrown = NoError
    /\ raised = NoError
    /\ orsLog = << >>
    /\ lastFetch = NoValue
    /\ resolverLog = << >>
    /\ running = 0
    /\ parked = NoValue
    /\ NoAuthCalls

\* this.validateCoordinates(coordinates) and
\* this.validateLandCoordinates(coordinates) are called on the coordinate
PreValidate ==
    /\ pc = "prevalidate"
    /\ pc' = "prevalidated"
    /\ lastFetch' = [kind |-> "prevalidation", coordinates |-> coordinates,
                     numeric |-> validateCoordinates(coordinates),
                     land |-> validateLandCoordinates(coordinates)]
    /\ UNCHANGED << user, now, sessions, authHist, running, parked, destination, tripType,
                    attempt, lastError, llmLog, llmData, dayIdx, coordinates, routes,
                    processedRoutes, replaced, repairs, llmTrip, result, thrown, raised,
                    orsLog, resolverLog >>

ValidatorNext == PreValidate

ValidatorSpec == ValidatorInit /\ [][ValidatorNext]_vars

\* ------------------------------------------------------------------------
\* The two isSamePoint functions on a pair of points
\* ------------------------------------------------------------------------
\* latitudes and longitudes around the tolerance, on both sides of zero
SamePointLats ==
    { -1000, -1, 0, 1, 999, 1000, 1001, 48849000, 48849001, 48850000, 48850999, 48851000 }
SamePointLngs == { -500, 0, 499, 500, 2350000, 2350999, 2351000 }

SamePointInit ==
    /\ \E la, lb \in SamePointLats, na, nb \in SamePointLngs :
          coordinates = << << na, la >>, << nb, lb >> >>
    /\ pc = "compare"
    /\ destination = "Paris"
    /\ tripType = "trek"
    /\ attempt = 1
    /\ lastError = NoError
    /\ llmLog = << >>
    /\ llmData = NoValue
    /\ dayIdx = 1
    /\ routes = << >>
    /\ processedRoutes = << >>
    /\ replaced = {}
    /\ repairs = 0
    /\ llmTrip = NoValue
    /\ result = NoValue
    /\ thrown = NoError
    /\ raised = NoError
    /\ orsLog = << >>
    /\ lastFetch = NoValue
    /\ resolverLog = << >>
    /\ running = 0
    /\ parked = NoValue
    /\ NoAuthCalls

\* LLMService.isSamePoint and ConstraintService.isSamePoint are called on
\* the two points, in both orders
ComparePoints ==
    /\ pc = "compare"
    /\ pc' = "compared"
    /\ LET a == Pt(coordinates[1][2], coordinates[1][1], "a")
           b == Pt(coordinates[2][2], coordinates[2][1], "b")
       IN lastFetch' = [kind |-> "comparison", a |-> a, b |-> b,
                        llm |-> isSamePoint(a, b),
                        llmSwapped |-> isSamePoint(b, a),
                        constraint |-> ConstraintIsSamePoint(a, b),
                        constraintSwapped |-> ConstraintIsSamePoint(b, a)]
    /\ UNCHANGED << user, now, sessions, authHist, running, parked, destination, tripType,
                    attempt, lastError, llmLog, llmData, dayIdx, coordinates, routes,
                    processedRoutes, replaced, repairs, llmTrip, result, thrown, raised,
                    orsLog, resolverLog >>

SamePointNext == ComparePoints

SamePointSpec == SamePointInit /\ [][SamePointNext]_vars

\* ------------------------------------------------------------------------
\* Two requests in one process.  TripService, LLMService, GroqService,
\* ORSService and CoordinateService are singletons whose fields are set in
\* the constructor only; everything a request writes is a local variable or
\* an object reachable from one, so a request suspended at an await keeps
\* its own copy of all of it.
\* ------------------------------------------------------------------------
Frame ==
    [destination |-> destination, tripType |-> tripType, pc |-> pc,
     attempt |-> attempt, lastError |-> lastError, llmLog |-> llmLog,
     llmData |-> llmData, dayIdx |-> dayIdx, coordinates |-> coordinates,
     routes |-> routes, processedRoutes |-> processedRoutes,
     replaced |-> replaced, repairs |-> repairs, llmTrip |-> llmTrip,
     result |-> result, thrown |-> thrown, raised |-> raised,
     orsLog |-> orsLog, lastFetch |-> lastFetch, resolverLog |-> resolverLog]

\* the locals of a request that has not run yet
NewRequest(type) ==
    [destination |-> "Paris", tripType |-> type, pc |-> "start",
     attempt |-> 1, lastError |-> NoError, llmLog |-> << >>,
     llmData |-> NoValue, dayIdx |-> 1, coordinates |-> << >>,
     routes |-> << >>, processedRoutes |-> << >>,
     replaced |-> {}, repairs |-> 0, llmTrip |-> NoValue,
     result |-> NoValue, thrown |-> NoError, raised |-> NoError,
     orsLog |-> << >>, lastFetch |-> NoValue, resolverLog |-> << >>]

\* the retry counter and the last error are fields of the GroqService
\* instance, which both requests share
Resume_sharedRetryState(f) ==
    /\ destination' = f.destination
    /\ tripType' = f.tripType
    /\ pc' = f.pc
    /\ UNCHANGED << attempt, lastError >>
    /\ llmLog' = f.llmLog
    /\ llmData' = f.llmData
    /\ dayIdx' = f.dayIdx
    /\ coordinates' = f.coordinates
    /\ routes' = f.routes
    /\ processedRoutes' = f.processedRoutes
    /\ replaced' = f.replaced
    /\ repairs' = f.repairs
    /\ llmTrip' = f.llmTrip
    /\ result' = f.result
    /\ thrown' = f.thrown
    /\ raised' = f.raised
    /\ orsLog' = f.orsLog
    /\ lastFetch' = f.lastFetch
    /\ resolverLog' = f.resolverLog

\* the continuation of a suspended request runs with the locals f the
\* request had when it reached the await
Resume(f) ==
    /\ destination' = f.destination
    /\ tripType' = f.tripType
    /\ pc' = f.pc
    /\ attempt' = f.attempt
    /\ lastError' = f.lastError
    /\ llmLog' = f.llmLog
    /\ llmData' = f.llmData
    /\ dayIdx' = f.dayIdx
    /\ coordinates' = f.coordinates
    /\ routes' = f.routes
    /\ processedRoutes' = f.processedRoutes
    /\ replaced' = f.replaced
    /\ repairs' = f.repairs
    /\ llmTrip' = f.llmTrip
    /\ result' = f.result
    /\ thrown' = f.thrown
    /\ raised' = f.raised
    /\ orsLog' = f.orsLog
    /\ lastFetch' = f.lastFetch
    /\ resolverLog' = f.resolverLog

\* the running request reaches an await (or its end) and the event loop
\* runs the continuation of the other request
Switch ==
    /\ Interleaved
    /\ running' = 3 - running
    /\ parked' = Frame
    /\ Resume(parked)
    /\ UNCHANGED << user, now, sessions, authHist >>

InterleavedInit ==
    \E a, b \in {"trek", "cycling"} :
        /\ running = 1
        /\ parked = NewRequest(b)
        /\ destination = "Paris"
        /\ tripType = a
        /\ pc = "start"
        /\ attempt = 1
        /\ lastError = NoError
        /\ llmLog = << >>
        /\ llmData = NoValue
        /\ dayIdx = 1
        /\ coordinates = << >>
        /\ routes = << >>
        /\ processedRoutes = << >>
        /\ replaced = {}
        /\ repairs = 0
        /\ llmTrip = NoValue
        /\ result = NoValue
        /\ thrown = NoError
        /\ raised = NoError
        /\ orsLog = << >>
        /\ lastFetch = NoValue
        /\ resolverLog = << >>
        /\ NoAuthCalls

InterleavedNext ==
    \/ ValidateRequest
    \/ GenerateAttempt
    \/ BuildDay
    \/ FixCoordinates
    \/ RetryDay
    \/ TrimDay
    \/ DirectDay
    \/ EnsureContinuous
    \/ CloseLoop
    \/ ProcessCycling
    \/ Assemble
    \/ FinishTrip
    \/ Switch

InterleavedSpec == InterleavedInit /\ [][InterleavedNext]_vars

\* ------------------------------------------------------------------------
\* Properties
\* ------------------------------------------------------------------------
\* generateTrip returned a trip to its caller
Returned == pc = "done" /\ thrown = NoError /\ result # NoValue
ReturnedTrek == Returned /\ tripType = "trek"
ReturnedCycling == Returned /\ tripType = "cycling"

\* the same location: both coordinate deltas below 0.001 degrees
SameLocation(a, b) == Abs(a.lat - b.lat) < 1000 /\ Abs(a.lng - b.lng) < 1000

\* a day of the returned trip went through the trimming fallback
SomeDayTrimmed == replaced # {}

\* the loop closure replaced the last day of the returned trip
LoopWasClosed ==
    LET n == Len(result.routes)
    IN result.routes[n].geometry =
           << Coord(ReturnOrigin(result.routes[n])), Coord(result.routes[1].startPoint) >>

\* C1: a trek trip returned by generateTrip has as many routes as
\* estimatedDays, between 1 and 5 days, and every day between 5 and 15 km
C1_TrekDaysAndDistances ==
    ReturnedTrek =>
        /\ Len(result.routes) = result.estimatedDays
        /\ result.estimatedDays >= 1 /\ result.estimatedDays <= 5
        /\ \A i \in 1..Len(result.routes) :
              result.routes[i].distance >= 5000 /\ result.routes[i].distance <= 15000

\* a returned trek whose days sit on both ends of the allowed range
C1_Witness ==
    /\ ReturnedTrek
    /\ \E i, j \in 1..Len(result.routes) :
          result.routes[i].distance = 5000 /\ result.routes[j].distance = 15000

\* C2: in a returned trek trip every day ends at the location where the
\* next day starts, also when trimming and loop closure have run
C2_TrekContinuity ==
    ReturnedTrek =>
        \A i \in 1..(Len(result.routes) - 1) :
            SameLocation(result.routes[i].endPoint, result.routes[i + 1].startPoint)

\* a returned trek whose proposal had a gap between two days, and for which
\* both the trimming and the loop closure ran
C2_Witness ==
    /\ ReturnedTrek
    /\ repairs = 0
    /\ SomeDayTrimmed
    /\ LoopWasClosed
    /\ \E i \in 1..(Len(llmData.routes) - 1) :
          ~SameLocation(llmData.routes[i].endPoint, llmData.routes[i + 1].startPoint)

\* C3: a returned trek trip, of one day or more, starts and ends at the
\* same location
C3_TrekLoopClosed ==
    ReturnedTrek =>
        SameLocation(result.routes[1].startPoint,
                     result.routes[Len(result.routes)].endPoint)

\* a returned 1-day trek whose proposal ended away from its start
C3_Witness ==
    /\ ReturnedTrek
    /\ Len(result.routes) = 1
    /\ ~SameLocation(llmData.routes[1].startPoint, llmData.routes[1].endPoint)

CyclingEnforcement == tripType = "cycling" /\ pc \in {"cycling", "totals", "validated"}

\* C5: in a returned cycling trip day 1 ends where day 2 starts and the
\* trip does not end where it started; the cycling checks never change a
\* route, they only accept or reject
C5_CyclingPointToPoint ==
    /\ [](ReturnedCycling =>
            /\ SameLocation(result.routes[1].endPoint, result.routes[2].startPoint)
            /\ ~SameLocation(result.routes[1].startPoint, result.routes[2].endPoint))
    /\ [][CyclingEnforcement => routes' = routes]_vars

\* a returned cycling trip whose day 2 starts near, not at, the end of day 1
C5_Witness ==
    /\ ReturnedCycling
    /\ result.routes[1].endPoint.lat # result.routes[2].startPoint.lat
    /\ result.routes = routes

\* a point with coordinates in range and a name
UsablePoint(p) ==
    /\ p # NoValue
    /\ p.lat >= -90000000 /\ p.lat <= 90000000
    /\ p.lng >= -180000000 /\ p.lng <= 180000000
    /\ p.name # ""

\* the trip has every proposed day, each resolved to a path, with usable
\* points and a distance in the range of the trip type, and the shape of
\* the trip type
CompleteTrip(trip) ==
    /\ Len(trip.routes) = Len(llmData.routes)
    /\ Len(trip.routes) = trip.estimatedDays
    /\ \A i \in 1..Len(trip.routes) :
          /\ Len(trip.routes[i].geometry) >= 2
          /\ UsablePoint(trip.routes[i].startPoint)
          /\ UsablePoint(trip.routes[i].endPoint)
          /\ \A j \in 1..Len(trip.routes[i].waypoints) :
                UsablePoint(trip.routes[i].waypoints[j])
          /\ IF trip.tripType = "trek"
             THEN trip.routes[i].distance >= 5000 /\ trip.routes[i].distance <= 15000
             ELSE trip.routes[i].distance >= 10 /\ trip.routes[i].distance <= 60000
    /\ trip.tripType = "cycling" =>
          /\ Len(trip.routes) = 2
          /\ SameLocation(trip.routes[1].endPoint, trip.routes[2].startPoint)
          /\ ~SameLocation(trip.routes[1].startPoint, trip.routes[2].endPoint)

\* C6: a request ends either with a trip that passed the validation of its
\* trip type or with an error and no trip; no trip exists before the end
C6_AllOrNothing ==
    /\ pc # "done" => result = NoValue /\ thrown = NoError
    /\ pc = "done" => (result = NoValue) # (thrown = NoError)
    /\ result # NoValue => CompleteTrip(result)

\* a request that failed after some, not all, of its days were resolved
C6_Witness ==
    /\ pc = "done"
    /\ thrown # NoError
    /\ result = NoValue
    /\ Len(routes) >= 1
    /\ Len(routes) < Len(llmData.routes)

\* C7: the totals of a returned trip are the sums over its routes: the
\* distance within 0.01 km, the duration exactly
C7_TotalsMatchRoutes ==
    Returned =>
        /\ Abs(result.totalDistance - SumOver(result.routes, 1, "distance")) <= 10
        /\ result.estimatedDuration = SumOver(result.routes, 1, "duration")

\* a returned trek in which trimming and loop closure replaced the metrics
\* of a day
C7_Witness ==
    /\ ReturnedTrek
    /\ SomeDayTrimmed
    /\ LoopWasClosed
    /\ \E i \in 1..Len(routes) : routes[i].distance # result.routes[i].distance

\* generateRoutePoints was entered
GenerationStarted == destination # "" /\ pc # "start"

\* generateRoutePoints used up its attempts and threw
GenerationExhausted == GenerationStarted /\ pc = "done" /\ llmData = NoValue

\* C8: one request sends at most 3 requests to the text-generation service
C8_AtMostThreeCalls == Len(llmLog) <= 3

\* a request whose generation used up all its attempts after the service
\* had been called
C8_Witness ==
    /\ GenerationExhausted
    /\ attempt = 3
    /\ Len(llmLog) >= 1

\* attempts of generateRoutePoints that have run to their end
AttemptsFinished ==
    IF pc = "gen" THEN attempt - 1 ELSE attempt

\* C9: every attempt of generateRoutePoints, the retries after a failed
\* attempt included, sends a request to the text-generation service, the
\* retries with the strengthened instruction
C9_RetryCallsService ==
    GenerationStarted =>
        /\ Len(llmLog) = AttemptsFinished
        /\ \A k \in 1..Len(llmLog) : llmLog[k].attempt = k /\ llmLog[k].isRetry = (k > 1)

\* C10: when generateRoutePoints runs out of attempts the caller gets
\* TRIP_GENERATION_FAILED with the detail of the failure of the last
\* request to the text-generation service
C10_LastErrorDetail ==
    GenerationExhausted =>
        /\ thrown.code = "TRIP_GENERATION_FAILED"
        /\ Len(llmLog) >= 1
        /\ thrown.msg = llmLog[Len(llmLog)].failure

\* the class of an average of total / days, both in thousandths of a km
DifficultyClass(type, total, days) ==
    IF type = "trek"
    THEN IF total <= 8000 * days THEN "easy"
         ELSE IF total <= 12000 * days THEN "moderate" ELSE "hard"
    ELSE IF total <= 30000 * days THEN "easy"
         ELSE IF total <= 50000 * days THEN "moderate" ELSE "hard"

\* C17: the difficulty of a returned trip is the class of the average of
\* its routes' distances: trek up to 8 easy, up to 12 moderate, else hard;
\* cycling up to 30 easy, up to 50 moderate, else hard
C17_DifficultyFromAverage ==
    Returned =>
        result.difficulty =
            DifficultyClass(result.tripType, SumOver(result.routes, 1, "distance"),
                            Len(result.routes))

\* ------------------------------------------------------------------------
\* Coordinate repair in buildRealRoutes
\* ------------------------------------------------------------------------
\* the point a resolution contributes to the repaired coordinates
Corrected(run) ==
    IF run.geocoded = 2 THEN run.env.geocoder[2].centre ELSE run.result

\* the resolutions the step appends to the log
NewRuns == SubSeq(resolverLog', Len(resolverLog) + 1, Len(resolverLog'))

\* the repair resolved every point of the rejected request, in order, and
\* the retry with the corrected points is next
ResolvedEveryPoint ==
    /\ Len(NewRuns) = Len(coordinates)
    /\ \A i \in 1..Len(coordinates) : NewRuns[i].point = coordinates[i]
    /\ pc' = "retry"
    /\ coordinates' = [i \in 1..Len(coordinates) |-> Corrected(NewRuns[i])]
    /\ \A i \in 1..Len(coordinates) : coordinates'[i] # NoCoord

\* the repair resolved the points in order up to one for which the resolver
\* and the second call of the geocoder failed, and the request ended with
\* the geocoder's error without another routing request
ResolvedUntilFailure ==
    /\ Len(NewRuns) \in 1..Len(coordinates)
    /\ \A i \in 1..Len(NewRuns) : NewRuns[i].point = coordinates[i]
    /\ \A i \in 1..(Len(NewRuns) - 1) : Corrected(NewRuns[i]) # NoCoord
    /\ Corrected(NewRuns[Len(NewRuns)]) = NoCoord
    /\ pc' = "done"
    /\ thrown' = Err(TRUE, "EXTERNAL_SERVICE_ERROR", "generic")
    /\ result' = NoValue
    /\ orsLog' = orsLog

\* the retry is one routing request with the corrected points: on success
\* the day is stored with the corrected points, on failure the request ends
\* with an error
RetriedOnce ==
    /\ orsLog' = Append(orsLog, [op |-> "retry", day |-> dayIdx,
                                 unreachable |-> lastFetch'.error.msg = "routable point"])
    /\ lastFetch'.coordinates = coordinates
    /\ pc' \notin {"fix", "retry"}
    /\ IF lastFetch'.error = NoError
       THEN /\ Len(routes') = dayIdx
            /\ DayCoordinates(routes'[dayIdx]) = coordinates
            /\ routes'[dayIdx].distance = lastFetch'.metrics.distance
            /\ pc' # "done"
       ELSE /\ pc' = "done"
            /\ thrown' # NoError
            /\ result' = NoValue
            /\ routes' = routes

\* a day has at most two routing requests in buildRealRoutes: a retry
\* directly follows a first request rejected as unreachable, and nothing
\* else does
RetryFollowsRejection ==
    \A i \in 1..Len(orsLog) :
        /\ orsLog[i].op = "retry" =>
              /\ i > 1
              /\ orsLog[i - 1].op = "build"
              /\ orsLog[i - 1].unreachable
              /\ orsLog[i - 1].day = orsLog[i].day
        /\ (orsLog[i].op = "build" /\ orsLog[i].unreachable /\ i < Len(orsLog)) =>
              orsLog[i + 1].op = "retry"
        /\ (orsLog[i].op = "build" /\ i > 1) =>
              orsLog[i - 1].op \in {"build", "retry"} /\ orsLog[i - 1].day = orsLog[i].day - 1

\* a first request was rejected as unreachable and nothing was requested
\* from the routing service since
RejectionIsLast ==
    /\ orsLog # << >>
    /\ orsLog[Len(orsLog)].op = "build"
    /\ orsLog[Len(orsLog)].unreachable

\* C11 as stated: when the first routing request of a day is rejected as
\* unreachable, the resolver is invoked for every point of the request in
\* order, routing is retried exactly once with the corrected points, the
\* stored points of the day are the corrected ones on success, and a failed
\* retry ends the generation
C11_EveryPointResolvedThenOneRetry ==
    /\ [](RetryFollowsRejection /\ (RejectionIsLast => pc \in {"fix", "retry"}))
    /\ [][(pc = "fix" => ResolvedEveryPoint) /\ (pc = "retry" => RetriedOnce)]_vars

\* C11, amended: the resolver is invoked for the points of the request in
\* order until the resolver and the geocoder fail for one of them, which
\* ends the generation with the geocoder's error and without a retry; when
\* every point was resolved, routing is retried exactly once with the
\* corrected points, the stored points of the day are the corrected ones on
\* success, and a failed retry ends the generation
C11_ResolvedInOrderThenOneRetry ==
    /\ [](RetryFollowsRejection /\
          (RejectionIsLast => pc \in {"fix", "retry"} \/ (pc = "done" /\ thrown # NoError)))
    /\ [][(pc = "fix" => ResolvedEveryPoint \/ ResolvedUntilFailure)
          /\ (pc = "retry" => RetriedOnce)]_vars

\* a day with waypoints was stored with corrected points after its retry
C11_Witness ==
    /\ lastFetch.kind = "fetch"
    /\ lastFetch.op = "retry"
    /\ lastFetch.error = NoError
    /\ Len(lastFetch.coordinates) >= 3
    /\ Len(routes) = lastFetch.day
    /\ DayCoordinates(routes[lastFetch.day]) = lastFetch.coordinates
    /\ DayCoordinates(routes[lastFetch.day]) # DayCoordinates(llmData.routes[lastFetch.day])

\* ------------------------------------------------------------------------
\* CoordinateService.findRoutableCoordinates
\* ------------------------------------------------------------------------
\* the resolutions made so far
Runs == { resolverLog[i] : i \in 1..Len(resolverLog) }

\* the resolution returned a coordinate pair
ReturnedPoint(run) == run.error = NoError /\ Len(run.result) = 2

\* C12 as stated: findRoutableCoordinates never fails, whatever the routing
\* service and the geocoder do: it always returns a point
C12_ResolverNeverFails == \A run \in Runs : ReturnedPoint(run)

\* C12, amended: findRoutableCoordinates returns a point whenever a probe
\* is accepted or the geocoder answers with a result; when every probe is
\* rejected and the geocoder errors or has no result, it throws
\* EXTERNAL_SERVICE_ERROR after all probes and one geocoder call
C12_ResolverFailsOnlyWithGeocoder ==
    \A run \in Runs :
        IF run.env.accepted # {} \/ run.env.geocoder[1].kind = "ok"
        THEN ReturnedPoint(run)
        ELSE /\ run.error = Err(TRUE, "EXTERNAL_SERVICE_ERROR", "generic")
             /\ run.result = NoCoord
             /\ Len(run.probes) = Len(searchRadii) * CandidatesPerRadius
             /\ run.geocoded = 1

\* every probe was rejected and the geocoder had no result; every probe was
\* rejected and the geocoder answered
C12_Witness ==
    /\ \E run \in Runs :
          run.env.accepted = {} /\ run.env.geocoder[1].kind = "empty" /\ run.error # NoError
    /\ pc = "resolved"

\* the k-th probe in the order of the search: radii 0.001, 0.002, 0.005,
\* 0.01, and within a radius the 8 ring points, then the 4 cardinal offsets
ProbeInOrder(k) ==
    Probe((k - 1) \div CandidatesPerRadius + 1, ((k - 1) % CandidatesPerRadius) + 1)

\* the candidate of a probe for a point: ring points every 45 degrees from
\* north, then north, south, east and west of the point
CandidateOf(point, probe) ==
    LET radius == searchRadii[probe[1]]
        d == Diagonal(radius)
        lng == point[1]
        lat == point[2]
        c == probe[2]
    IN IF c <= RingSteps
       THEN << lng + (CASE c \in {1, 5} -> 0 [] c \in {2, 4} -> d [] c = 3 -> radius
                        [] c \in {6, 8} -> 0 - d [] c = 7 -> 0 - radius),
               lat + (CASE c = 1 -> radius [] c \in {2, 8} -> d [] c \in {3, 7} -> 0
                        [] c \in {4, 6} -> 0 - d [] c = 5 -> 0 - radius) >>
       ELSE CASE c = 9 -> << lng, lat + radius >>
              [] c = 10 -> << lng, lat - radius >>
              [] c = 11 -> << lng + radius, lat >>
              [] c = 12 -> << lng - radius, lat >>

\* C13: findRoutableCoordinates probes the candidates in order (smallest
\* radius first, then ring order) and returns the first accepted one: no
\* probe before the returned one was accepted, nothing is probed after an
\* acceptance, and the geocoder is called only after every candidate of
\* every radius was rejected
C13_FirstAcceptedInOrder ==
    \A run \in Runs :
        /\ \A k \in 1..Len(run.probes) : run.probes[k] = ProbeInOrder(k)
        /\ \A k \in 1..(Len(run.probes) - 1) : run.probes[k] \notin run.env.accepted
        /\ IF run.geocoded = 0
           THEN /\ Len(run.probes) >= 1
                /\ run.probes[Len(run.probes)] \in run.env.accepted
                /\ run.result = CandidateOf(run.point, run.probes[Len(run.probes)])
           ELSE /\ Len(run.probes) = Len(searchRadii) * CandidatesPerRadius
                /\ run.probes[Len(run.probes)] \notin run.env.accepted
                /\ run.env.accepted = {}

\* the first accepted candidate is the first of the second radius, the
\* last candidate of the last radius is accepted too and is not probed
C13_Witness ==
    \E run \in Runs :
        /\ run.env.accepted = { Probe(2, 1), Probe(4, 12) }
        /\ Len(run.probes) = CandidatesPerRadius + 1
        /\ run.result = << run.point[1], run.point[2] + 2000 >>
        /\ run.geocoded = 0

\* C14: resolving a point the routing service accepts returns that point
\* unchanged
C14_RoutablePointUnchanged ==
    \A run \in Runs : run.env.originalRoutable => run.result = run.point

\* ------------------------------------------------------------------------
\* Points in open water
\* ------------------------------------------------------------------------
\* the latest routing request was the first one of a day and had a
\* coordinate in open water, all its coordinates being in range and none
\* being (0, 0)
WaterPointRequested ==
    /\ lastFetch.kind = "fetch"
    /\ lastFetch.op = "build"
    /\ validateCoordinates(lastFetch.coordinates)
    /\ \E i \in 1..Len(lastFetch.coordinates) :
          ~isLikelyOnLand(lastFetch.coordinates[i][2], lastFetch.coordinates[i][1])

\* C15: a first request of a day with a coordinate in open water is
\* answered by the coordinate repair of that day (the repair is pending,
\* or the resolver ran for the points of the request), whether the routing
\* service or the land-plausibility check rejected it; the generation does
\* not fail without a repair
C15_WaterPointIsRepaired ==
    WaterPointRequested =>
        \/ pc \in {"fix", "retry"}
        \/ \E run \in Runs : run.point = lastFetch.coordinates[1]

\* ------------------------------------------------------------------------
\* Trimming of trek days over 15 km
\* ------------------------------------------------------------------------
\* the step sends one routing request for the day the loop is at
OneRequest(op) ==
    /\ Len(orsLog') = Len(orsLog) + 1
    /\ lastFetch'.op = op
    /\ lastFetch'.day = dayIdx

\* the metrics of the request are stored for the day, or the request ends
StoredOrFailed ==
    IF lastFetch'.error = NoError
    THEN /\ processedRoutes'[dayIdx].distance = lastFetch'.metrics.distance
         /\ processedRoutes'[dayIdx].duration = lastFetch'.metrics.duration
         /\ processedRoutes'[dayIdx].geometry = lastFetch'.metrics.geometry
    ELSE pc' = "done" /\ thrown' # NoError

\* a day over 15 km is requested again from its start through a prefix of
\* at most 2 of its waypoints to the point target; the direct request
\* follows only if the answer is over 15 km again
TrimmedTo(target) ==
    LET route == processedRoutes[dayIdx]
        sent == lastFetch'.coordinates
        kept == Len(sent) - 2
    IN /\ OneRequest("trim")
       /\ kept \in 0..2
       /\ kept <= Len(route.waypoints)
       /\ sent[1] = Coord(route.startPoint)
       /\ \A j \in 1..kept : sent[j + 1] = Coord(route.waypoints[j])
       /\ sent[Len(sent)] = Coord(target)
       /\ StoredOrFailed
       /\ pc' = "direct" <=> (lastFetch'.error = NoError /\ lastFetch'.metrics.distance > 15000)

\* the day is requested from its start to the point target, without
\* waypoints, and is not requested again
DirectTo(target) ==
    /\ OneRequest("direct")
    /\ lastFetch'.coordinates = << Coord(processedRoutes[dayIdx].startPoint), Coord(target) >>
    /\ StoredOrFailed
    /\ lastFetch'.error = NoError => processedRoutes'[dayIdx].waypoints = << >>
    /\ pc' # "direct"
    /\ pc' = "trim" => dayIdx' = dayIdx + 1

\* the trimming loop is at a day over 15 km
DayOverLimit == pc = "trim" /\ processedRoutes[dayIdx].distance > 15000

\* a direct request is made only after a trimmed request of the same day
\* was answered with more than 15 km; a day has at most one request of
\* each kind, the direct one right after the trimmed one
AtMostTwoRequests ==
    /\ pc = "direct" =>
          /\ lastFetch.op = "trim"
          /\ lastFetch.day = dayIdx
          /\ lastFetch.error = NoError
          /\ lastFetch.metrics.distance > 15000
    /\ \A i, j \in 1..Len(orsLog) :
          (i < j /\ orsLog[i].day = orsLog[j].day
                 /\ orsLog[i].op \in {"trim", "direct"} /\ orsLog[j].op \in {"trim", "direct"}) =>
              (orsLog[i].op = "trim" /\ orsLog[j].op = "direct" /\ j = i + 1)

\* C16 as stated: a trek day over 15 km is first re-resolved through a
\* prefix of at most its first 2 waypoints and, only if that is over 15 km
\* too, directly from the day's startPoint to the day's endPoint; the day
\* has at most 2 such requests and stores the metrics of the last one
C16_TrimThenDirectToDayEnd ==
    /\ []AtMostTwoRequests
    /\ [][/\ DayOverLimit => TrimmedTo(processedRoutes[dayIdx].endPoint)
          /\ pc = "direct" => DirectTo(processedRoutes[dayIdx].endPoint)
          /\ (pc = "trim" /\ ~DayOverLimit) => orsLog' = orsLog]_vars

\* where the requests of the trimming loop end: the start of the next day,
\* or the day's own end on the last day
NextStartOrOwnEnd ==
    IF dayIdx < Len(processedRoutes)
    THEN processedRoutes[dayIdx + 1].startPoint
    ELSE processedRoutes[dayIdx].endPoint

\* C16, amended: both requests end at the next day's startPoint, and at the
\* day's own endPoint only on the last day
C16_TrimThenDirectToNextStart ==
    /\ []AtMostTwoRequests
    /\ [][/\ DayOverLimit => TrimmedTo(NextStartOrOwnEnd)
          /\ pc = "direct" => DirectTo(NextStartOrOwnEnd)
          /\ (pc = "trim" /\ ~DayOverLimit) => orsLog' = orsLog]_vars

\* a day proposed with 3 waypoints, not the last one, was requested with 2
\* waypoints and then directly, to a point that is not its own end, and
\* stores the metrics of the direct request
C16_Witness ==
    /\ lastFetch.kind = "fetch"
    /\ lastFetch.op = "direct"
    /\ lastFetch.error = NoError
    /\ lastFetch.day < Len(processedRoutes)
    /\ Len(routes[lastFetch.day].waypoints) = 3
    /\ lastFetch.coordinates[2] # Coord(processedRoutes[lastFetch.day].endPoint)
    /\ processedRoutes[lastFetch.day].distance = lastFetch.metrics.distance
    /\ processedRoutes[lastFetch.day].waypoints = << >>

\* ------------------------------------------------------------------------
\* Propagation of failures
\* ------------------------------------------------------------------------
\* generateTrip ended with an error
Failed == pc = "done" /\ thrown # NoError

\* the latest routing request failed
RequestFailed == lastFetch.kind = "fetch" /\ lastFetch.error # NoError

\* the latest routing request was the first one of a day and was rejected
\* as unreachable
RejectedAsUnreachable ==
    RequestFailed /\ lastFetch.op = "build" /\ MentionsRoutablePoint(lastFetch.error)

\* a failed routing request other than a first request rejected as
\* unreachable ends generateTrip with the error of the request as the error
\* raised
OnlyUnreachableRecovered ==
    (RequestFailed /\ ~RejectedAsUnreachable) => (Failed /\ raised = lastFetch.error)

RetryFailed == RequestFailed /\ lastFetch.op = "retry"

ResolutionOps == {"build", "retry"}
EnforcementOps == {"trim", "direct", "closure"}

\* the first request of day 1 is the first request of all; the first
\* request of a later day directly follows the request that completed the
\* day before: its first request if that was not rejected as unreachable,
\* its retry otherwise
DaysInSequence ==
    \A i \in 1..Len(orsLog) :
        orsLog[i].op = "build" =>
            IF i = 1 THEN orsLog[i].day = 1
            ELSE /\ orsLog[i - 1].day = orsLog[i].day - 1
                 /\ \/ orsLog[i - 1].op = "retry"
                    \/ orsLog[i - 1].op = "build" /\ ~orsLog[i - 1].unreachable

\* a request of the constraint enforcement comes after the first request
\* of every proposed day, with every day stored, and no request of
\* buildRealRoutes comes after it
EnforcementAfterAllDays ==
    \A i \in 1..Len(orsLog) :
        orsLog[i].op \in EnforcementOps =>
            /\ Len(routes) = Len(llmData.routes)
            /\ \A d \in 1..Len(llmData.routes) :
                  \E k \in 1..(i - 1) : orsLog[k].op = "build" /\ orsLog[k].day = d
            /\ \A j \in (i + 1)..Len(orsLog) : orsLog[j].op \notin ResolutionOps

\* C19: the routing requests of a generation are sequential by day: the
\* first request of day N+1 comes only after day N was resolved, its
\* repair and retry included, and the requests of the constraint
\* enforcement come only after every day was resolved
C19_SequentialDaysThenEnforcement ==
    /\ [](DaysInSequence /\ EnforcementAfterAllDays)
    /\ [][\A d \in 1..MaxDays + 1 :
             (Len(orsLog') = Len(orsLog) + 1 /\ lastFetch'.op = "build" /\ lastFetch'.day = d)
                 => (Len(routes) = d - 1 /\ pc \notin {"fix", "retry"})]_vars

\* day 1 was repaired and retried, day 2 was requested next, and the
\* constraint enforcement made a request afterwards
C19_Witness ==
    /\ Len(orsLog) >= 4
    /\ orsLog[1].op = "build" /\ orsLog[1].unreachable
    /\ orsLog[2].op = "retry" /\ orsLog[2].day = 1
    /\ orsLog[3].op = "build" /\ orsLog[3].day = 2
    /\ orsLog[4].op \in EnforcementOps

\* ------------------------------------------------------------------------
\* Points of a returned trip
\* ------------------------------------------------------------------------
\* the start point, the end point and the waypoints of a route
PointsOf(route) ==
    { route.startPoint, route.endPoint }
        \cup { route.waypoints[j] : j \in 1..Len(route.waypoints) }

\* coordinates in range, not (0, 0), a name, and a place the
\* land-plausibility test accepts
PlausiblePoint(p) ==
    /\ p.lat >= -90000000 /\ p.lat <= 90000000
    /\ p.lng >= -180000000 /\ p.lng <= 180000000
    /\ ~(p.lat = 0 /\ p.lng = 0)
    /\ p.name # ""
    /\ isLikelyOnLand(p.lat, p.lng)

\* C20: every start point, end point and waypoint of a returned trip has
\* its coordinates in range, is not (0, 0), has a name and passes the
\* land-plausibility test, the points written by the coordinate repair, the
\* continuity pass and the loop closure included
C20_ReturnedPointsPlausible ==
    Returned =>
        \A i \in 1..Len(result.routes) :
            \A p \in PointsOf(result.routes[i]) : PlausiblePoint(p)

\* a returned trek with a day that starts at a ring candidate of the
\* repair, a day whose start the continuity pass wrote, and a last day
\* whose end the loop closure wrote
C20_Witness ==
    /\ ReturnedTrek
    /\ Len(result.routes) = 2
    /\ \E run \in Runs :
          run.geocoded = 0 /\ Coord(result.routes[1].startPoint) = run.result
    /\ result.routes[2].startPoint # routes[2].startPoint
    /\ result.routes[2].endPoint # routes[2].endPoint

\* ------------------------------------------------------------------------
\* Malformed requests
\* ------------------------------------------------------------------------
\* generateTrip was called without a destination, or with a trip type that
\* is neither trek nor cycling
MalformedRequest == destination = "" \/ tripType \notin {"trek", "cycling"}

\* C21: generateTrip called with an empty destination or with a trip type
\* other than trek and cycling ends with a validation error (the code
\* VALIDATION_ERROR or INVALID_TRIP_TYPE), whatever the text-generation
\* service does, and returns no trip
C21_MalformedRequestRejected ==
    (MalformedRequest /\ pc = "done") =>
        /\ result = NoValue
        /\ thrown.code \in {"VALIDATION_ERROR", "INVALID_TRIP_TYPE"}

FiniteNumber(v) == v \notin { JsonNull, JsonUndefined, NaN }

PointInRange(p) ==
    /\ p # NoValue
    /\ FiniteNumber(p.lat) /\ p.lat >= -90000000 /\ p.lat <= 90000000
    /\ FiniteNumber(p.lng) /\ p.lng >= -180000000 /\ p.lng <= 180000000

\* the conditions on a proposal: city with a comma, the requested trip
\* type, a positive number of days that is the number of routes, 1 to 5 days
\* for a trek and 2 for a cycling trip, start and end point in every route,
\* every point finite and in range
SchemaConforms(resp, type) ==
    /\ resp.kind = "json"
    /\ HasComma(resp.city)
    /\ resp.tripType = type
    /\ resp.estimatedDays >= 1
    /\ Len(resp.routes) = resp.estimatedDays
    /\ type = "trek" => resp.estimatedDays \in 1..5
    /\ type = "cycling" => resp.estimatedDays = 2
    /\ \A i \in 1..Len(resp.routes) :
         /\ PointInRange(resp.routes[i].startPoint)
         /\ PointInRange(resp.routes[i].endPoint)
         /\ \A j \in 1..Len(resp.routes[i].waypoints) :
                PointInRange(resp.routes[i].waypoints[j])

\* the answers parseAndValidateJSON was given
ParsedAnswers ==
    { k \in 1..Len(llmLog) : llmLog[k].response.kind \in {"json", "nojson", "badjson"} }

\* C23: parseAndValidateJSON accepts a proposal exactly when it conforms to
\* the schema (a point in the sea conforms: no land check is applied), and
\* every violation fails the attempt.
C23_AcceptsExactlyConforming ==
    \A k \in ParsedAnswers :
        (llmLog[k].failure = "none") <=> SchemaConforms(llmLog[k].response, tripType)

\* C24: after 5 failed logins since the last successful one the account is
\* locked for 30 minutes from the fifth failure; a login that returns while
\* the lock is active is refused with ACCOUNT_LOCKED, issues no token and
\* leaves the counter of failed attempts as it was.
C24_LockedAfterFiveFailures ==
    /\ authHist.failedLogins >= LockThreshold =>
           user.accountLockedUntil = authHist.lockDue
    /\ (authHist.last.op = "login" /\ authHist.last.locked) =>
           /\ authHist.last.code = "ACCOUNT_LOCKED"
           /\ authHist.last.issued = NoToken
           /\ authHist.last.after.failedLoginAttempts
                  = authHist.last.before.failedLoginAttempts

RefreshSucceeded == authHist.last.op = "refresh" /\ authHist.last.code = "ok"

\* C25: in a sequential history refreshToken(t) succeeds only if t is
\* stored for the user; when it succeeds t is no longer stored and exactly
\* one new token is; no token is redeemed twice; after logout(user, t)
\* refreshToken(t) fails with INVALID_REFRESH_TOKEN, and logout leaves the
\* user's other tokens as they were.
C25_RefreshTokenRotation ==
    /\ RefreshSucceeded =>
           /\ Stored(authHist.last.before.refreshTokens, authHist.last.token)
           /\ ~Stored(authHist.last.after.refreshTokens, authHist.last.token)
           /\ authHist.last.after.refreshTokens
                  = Append(WithoutToken(authHist.last.before.refreshTokens,
                                        authHist.last.token),
                           authHist.last.issued)
    /\ authHist.redeemedAgain = {}
    /\ (authHist.last.op = "refresh" /\ authHist.afterLogout /\ ~authHist.last.token.forged) =>
           authHist.last.code = "INVALID_REFRESH_TOKEN"
    /\ authHist.last.op = "logout" =>
           authHist.last.after.refreshTokens
               = WithoutToken(authHist.last.before.refreshTokens, authHist.last.token)

\* the point fails the numeric-bounds check or the land-plausibility check
FailsPreValidation(c) ==
    ~validateCoordinates(<< c >>) \/ ~isLikelyOnLand(c[2], c[1])

SomePointFailsPreValidation ==
    /\ lastFetch # NoValue
    /\ \E i \in 1..Len(lastFetch.coordinates) : FailsPreValidation(lastFetch.coordinates[i])

\* C26: when any point of a fetchRoute request fails the numeric-bounds or
\* the land-plausibility check, the call throws the validation's error and
\* no request has been sent to the routing service.
C26_ValidatedBeforeRequest ==
    SomePointFailsPreValidation =>
        /\ ~lastFetch.sent
        /\ lastFetch.error \in { Err(FALSE, "Error", "invalid coordinate"),
                                 Err(FALSE, "Error", "in water") }
        /\ lastFetch.metrics = NoMetrics

\* a request whose second point is in the sea was refused before it was sent
C26_Witness ==
    /\ SomePointFailsPreValidation
    /\ ~FailsPreValidation(lastFetch.coordinates[1])
    /\ ~isLikelyOnLand(lastFetch.coordinates[2][2], lastFetch.coordinates[2][1])
    /\ ~lastFetch.sent

PreValidated == pc = "prevalidated"

\* the coordinate is numeric, finite, within the bounds and not (0, 0)
WithinNumericBounds(c) ==
    /\ c[1] \notin { NaN, Infinity, NegInfinity }
    /\ c[2] \notin { NaN, Infinity, NegInfinity }
    /\ c[2] >= -90000000 /\ c[2] <= 90000000
    /\ c[1] >= -180000000 /\ c[1] <= 180000000
    /\ ~(c[1] = 0 /\ c[2] = 0)

\* C27: validateCoordinates rejects a coordinate whose lat or lng is NaN,
\* Infinity or -Infinity, whose lat is outside [-90, 90] or whose lng is
\* outside [-180, 180], and the coordinate (0, 0); it accepts every other
\* coordinate.
C27_NumericBoundsCheck ==
    PreValidated => (lastFetch.numeric <=> WithinNumericBounds(coordinates[1]))

\* coordinates [lng, lat] that are on land: Paris, Sydney, Anchorage
Paris == << 2350000, 48850000 >>
Sydney == << 151210000, -33870000 >>
Anchorage == << -149900000, 61200000 >>
OnLand == { Paris, Sydney, Anchorage }

\* C28: the land-plausibility check never rejects a coordinate that is on
\* land; Sydney and Anchorage, on land beyond 140 degrees of longitude, pass
\* isLikelyOnLand.
C28_NoLandPointRejected ==
    (PreValidated /\ coordinates[1] \in OnLand) => lastFetch.land

\* the error fetchRoute throws for the provider's code 2010
NoRoutablePointRejection == Err(TRUE, "VALIDATION_ERROR", "routable point")

\* the first routing request of a day has just been made
FirstRequestOfDay ==
    /\ Len(orsLog') = Len(orsLog) + 1
    /\ lastFetch'.op = "build"

\* C29: the coordinate repair of a day starts if and only if the routing
\* service answered the day's first request with its rejection of code
\* 2010; any other failure of the request starts no repair, whatever its
\* message says.
C29_RepairOnlyForCode2010 ==
    [][ FirstRequestOfDay =>
            (pc' = "fix" <=> lastFetch'.error = NoRoutablePointRejection) ]_vars

\* the trimming loop is at a day of at most 15 km
DayWithinLimit ==
    tripType = "trek" /\ pc = "trim" /\ processedRoutes[dayIdx].distance <= 15000

\* C30: the trimming pass leaves a day of at most 15 km as it is, a day
\* below 5 km included: its route (waypoints, distance, duration, geometry)
\* is unchanged and no routing request is made for it.
C30_DayWithinLimitUntouched ==
    [][ DayWithinLimit =>
            /\ processedRoutes' = processedRoutes
            /\ replaced' = replaced
            /\ orsLog' = orsLog
            /\ lastFetch' = lastFetch ]_vars

\* the trimming pass is over and has left a day below 5 km as it was built
C30_Witness ==
    /\ tripType = "trek"
    /\ pc = "continuity"
    /\ \E d \in 1..Len(processedRoutes) :
         /\ processedRoutes[d].distance < 5000
         /\ processedRoutes[d] = routes[d]
         /\ d \notin replaced
         /\ \A k \in 1..Len(orsLog) : orsLog[k].day = d => orsLog[k].op \notin {"trim", "direct"}

\* ------------------------------------------------------------------------
\* Continuity pass and loop closure of a trek
\* ------------------------------------------------------------------------
\* day i starts away from the end of the day before it
StartsAfterGap(rs, i) == i > 1 /\ ~SameLocation(rs[i - 1].endPoint, rs[i].startPoint)

\* C31: the continuity pass sets the start of a day to a copy of the end of
\* the day before it when the two are not the same location, and changes
\* nothing else: it sends no routing request, it leaves every other field
\* of every day as it was, and it leaves a day that starts where the day
\* before it ends untouched
C31_ContinuityOnlyMovesStart ==
    [][pc = "continuity" =>
          /\ orsLog' = orsLog
          /\ lastFetch' = lastFetch
          /\ resolverLog' = resolverLog
          /\ Len(processedRoutes') = Len(processedRoutes)
          /\ \A i \in 1..Len(processedRoutes) :
                processedRoutes'[i] =
                    IF StartsAfterGap(processedRoutes, i)
                    THEN [processedRoutes[i] EXCEPT !.startPoint = processedRoutes[i - 1].endPoint]
                    ELSE processedRoutes[i]]_vars

\* the continuity pass has run on a trek of two days whose second day was
\* proposed, and routed, from a point away from the end of the first
C31_Witness ==
    /\ pc = "closure"
    /\ repairs = 0
    /\ Len(processedRoutes) = 2
    /\ ~SameLocation(llmData.routes[1].endPoint, llmData.routes[2].startPoint)
    /\ processedRoutes[2].startPoint = processedRoutes[1].endPoint
    /\ processedRoutes[2].geometry[1] = Coord(llmData.routes[2].startPoint)

\* the closure step sends one routing request from the point origin to the
\* start of the first day; the last day then ends at the start of the first
\* day and carries the metrics of that request, or the request fails and
\* the generation ends with its error
ClosedFrom(origin) ==
    LET n == Len(processedRoutes)
        first == processedRoutes[1].startPoint
        m == lastFetch'.metrics
    IN /\ Len(orsLog') = Len(orsLog) + 1
       /\ lastFetch'.op = "closure"
       /\ lastFetch'.coordinates = << Coord(origin), Coord(first) >>
       /\ IF lastFetch'.error = NoError
          THEN /\ pc' = "totals"
               /\ processedRoutes' = [processedRoutes EXCEPT ![n] =
                      [@ EXCEPT !.endPoint = first, !.distance = m.distance,
                                !.duration = m.duration, !.geometry = m.geometry]]
          ELSE /\ pc' = "done"
               /\ thrown' # NoError
               /\ processedRoutes' = processedRoutes

\* the trek is a loop already: no request, no change
LeftClosed ==
    /\ orsLog' = orsLog
    /\ lastFetch' = lastFetch
    /\ processedRoutes' = processedRoutes
    /\ pc' = "totals"

\* the loop closure is at a trek whose last day ends away from the start
LoopOpen ==
    ~SameLocation(processedRoutes[1].startPoint,
                  processedRoutes[Len(processedRoutes)].endPoint)

\* C32 as stated: when the first day's start is not the location of the
\* last day's end, exactly one routing request is sent, from the last
\* day's endPoint to the first day's startPoint, and the last day's
\* endPoint and metrics are replaced; when the loop is closed already no
\* request is sent and the last day is unchanged
C32_ClosureFromLastEnd ==
    [][pc = "closure" =>
          IF LoopOpen
          THEN ClosedFrom(processedRoutes[Len(processedRoutes)].endPoint)
          ELSE LeftClosed]_vars

\* the last waypoint of a day, or its start when it has none
LastWaypointOrStart(route) ==
    IF route.waypoints = << >> THEN route.startPoint
    ELSE route.waypoints[Len(route.waypoints)]

\* C32, amended: the one request runs from the last waypoint of the last
\* day, or from its startPoint when it has no waypoints, to the first
\* day's startPoint
C32_ClosureFromLastWaypoint ==
    [][pc = "closure" =>
          IF LoopOpen
          THEN ClosedFrom(LastWaypointOrStart(processedRoutes[Len(processedRoutes)]))
          ELSE LeftClosed]_vars

\* the loop closure replaced the last day of a trek that has waypoints, by
\* a request that did not start at the end the day had
C32_Witness ==
    /\ pc = "totals"
    /\ tripType = "trek"
    /\ lastFetch.kind = "fetch"
    /\ lastFetch.op = "closure"
    /\ lastFetch.error = NoError
    /\ LET last == processedRoutes[Len(processedRoutes)]
       IN /\ last.waypoints # << >>
          /\ last.endPoint = processedRoutes[1].startPoint
          /\ last.distance = lastFetch.metrics.distance
          /\ lastFetch.coordinates[1] = Coord(last.waypoints[Len(last.waypoints)])
          /\ lastFetch.coordinates[1] # Coord(llmData.routes[Len(llmData.routes)].endPoint)

\* ------------------------------------------------------------------------
\* Number of waypoints of a day
\* ------------------------------------------------------------------------
\* every day of the sequence has at most 4 waypoints
AtMostFourWaypoints(rs) == \A i \in 1..Len(rs) : Len(rs[i].waypoints) <= 4

\* C33: every proposal generateRoutePoints returns, and every route of a
\* trip generateTrip returns, has between 0 and 4 waypoints; a response
\* with a day of more than 4 waypoints yields no proposal
C33_AtMostFourWaypointsPerDay ==
    /\ llmData # NoValue => AtMostFourWaypoints(llmData.routes)
    /\ Returned => AtMostFourWaypoints(result.routes)
    /\ \A k \in 1..Len(llmLog) :
          (llmLog[k].response.kind = "json"
              /\ ~AtMostFourWaypoints(llmLog[k].response.routes))
            => llmLog[k].failure # "none"

\* ------------------------------------------------------------------------
\* Prompt of a retry attempt
\* ------------------------------------------------------------------------
\* the attempt loop is about to make an attempt after a failed one
RetryDue == pc = "gen" /\ attempt > 1

\* the previous attempt failed with the non-routable-coordinate error
FailedAsNonRoutable == lastError.msg = "routable point"

\* the prompt of the first attempt
FirstAttemptPrompt == [guidance |-> FALSE]

\* C34: a retry attempt of generateRoutePoints sends a prompt; the prompt
\* holds the additional routing guidance if and only if the previous
\* attempt failed with the non-routable-coordinate error, and is the prompt
\* of the first attempt after any other failure
C34_RetryPromptGuidance ==
    [][RetryDue =>
          /\ Len(llmLog') = Len(llmLog) + 1
          /\ LET sent == llmLog'[Len(llmLog')].prompt
             IN /\ sent.guidance <=> FailedAsNonRoutable
                /\ ~FailedAsNonRoutable => sent = FirstAttemptPrompt]_vars

\* ------------------------------------------------------------------------
\* Point equality
\* ------------------------------------------------------------------------
Compared == pc = "compared"

\* both coordinate deltas are strictly below 0.001 degrees
WithinTolerance(a, b) ==
    /\ a.lat - b.lat < 1000 /\ b.lat - a.lat < 1000
    /\ a.lng - b.lng < 1000 /\ b.lng - a.lng < 1000

\* C35: LLMService.isSamePoint and ConstraintService.isSamePoint return the
\* same result for every pair of points, TRUE iff both coordinate deltas
\* are strictly below 0.001 degrees; the relation is reflexive and symmetric
C35_OnePointEquality ==
    Compared =>
        /\ lastFetch.llm = lastFetch.constraint
        /\ lastFetch.llm <=> WithinTolerance(lastFetch.a, lastFetch.b)
        /\ lastFetch.llm = lastFetch.llmSwapped
        /\ lastFetch.constraint = lastFetch.constraintSwapped
        /\ (lastFetch.a.lat = lastFetch.b.lat /\ lastFetch.a.lng = lastFetch.b.lng)
              => (lastFetch.llm /\ lastFetch.constraint)

\* two points were compared whose latitudes are exactly 0.001 degrees
\* apart, and both functions answered that they are not the same point
C35_Witness ==
    /\ Compared
    /\ lastFetch.a.lat - lastFetch.b.lat = 1000
    /\ lastFetch.a.lng = lastFetch.b.lng
    /\ ~lastFetch.llm
    /\ ~lastFetch.constraint

\* ------------------------------------------------------------------------
\* Resolved path and stored points of a trek day
\* ------------------------------------------------------------------------
\* the request that produced the metrics of the route ran from the stored
\* start point of the route to its stored end point
PathMatchesStoredPoints(route) ==
    route.geometry = << Coord(route.startPoint), Coord(route.endPoint) >>

\* C36: in a trek trip generateTrip returns, the routing request that
\* produced a route's distance, duration and geometry had the route's
\* stored startPoint as its first point and the route's stored endPoint as
\* its last point, also after trimming, continuity rewrite and loop closure
C36_PathMatchesStoredPoints ==
    ReturnedTrek =>
        \A i \in 1..Len(result.routes) : PathMatchesStoredPoints(result.routes[i])

\* ------------------------------------------------------------------------
\* Trip type of the request and the external services
\* ------------------------------------------------------------------------
\* C37: a generateTrip call whose trip type is neither trek nor cycling is
\* rejected before any external service is called: no text-generation,
\* routing or geocoding request is made for it, and it never reaches the
\* image and weather requests that follow the routes
C37_UnknownTripTypeCallsNoService ==
    tripType \notin {"trek", "cycling"} =>
        /\ llmLog = << >>
        /\ orsLog = << >>
        /\ resolverLog = << >>
        /\ pc \notin {"totals", "validated"}
        /\ pc = "done" => thrown # NoError

\* ------------------------------------------------------------------------
\* Termination and number of external requests
\* ------------------------------------------------------------------------
\* number of routing requests of day d made by the steps in ops
RequestsOfDay(d, ops) ==
    Cardinality({ k \in 1..Len(orsLog) : orsLog[k].day = d /\ orsLog[k].op \in ops })

\* the external requests made so far are within the bounds
RequestsBounded ==
    /\ Len(llmLog) <= 3
    /\ \A k \in 1..Len(orsLog) :
          /\ RequestsOfDay(orsLog[k].day, {"build", "retry"}) <= 2
          /\ RequestsOfDay(orsLog[k].day, {"trim", "direct"}) <= 2
    /\ Cardinality({ k \in 1..Len(orsLog) : orsLog[k].op = "closure" }) <= 1
    /\ \A k \in 1..Len(resolverLog) :
          /\ Len(resolverLog[k].probes) <= 48
          /\ resolverLog[k].geocoded <= 2

\* an upper bound of the number of steps the request still takes: the
\* attempts left of the attempt loop, then three steps for each day
\* buildRealRoutes has not finished, then two for each day the trimming
\* loop has not finished, then the steps that run once
StepsLeft ==
    CASE pc = "start" -> 1000
      [] pc = "gen" -> 900 + (maxAttempts - attempt)
      [] pc = "build" -> 600 + 3 * (Len(llmData.routes) - dayIdx) + 3
      [] pc = "fix" -> 600 + 3 * (Len(llmData.routes) - dayIdx) + 2
      [] pc = "retry" -> 600 + 3 * (Len(llmData.routes) - dayIdx) + 1
      [] pc = "cycling" -> 300
      [] pc = "trim" -> 300 + 2 * (Len(processedRoutes) - dayIdx) + 2
      [] pc = "direct" -> 300 + 2 * (Len(processedRoutes) - dayIdx) + 1
      [] pc = "continuity" -> 250
      [] pc = "closure" -> 200
      [] pc = "totals" -> 100
      [] pc = "validated" -> 50
      [] pc = "done" -> 0

\* the steps other than Assemble, whose only guard is its place in the
\* chain: it builds the trip object and either stores it or throws
NextExceptAssemble ==
    \/ ValidateRequest \/ GenerateAttempt \/ BuildDay \/ FixCoordinates \/ RetryDay
    \/ TrimDay \/ DirectDay \/ EnsureContinuous \/ CloseLoop \/ ProcessCycling
    \/ FinishTrip

\* a request that has not ended can take a step
CanStep == pc \notin {"done", "totals"} => ENABLED NextExceptAssemble

\* C38: whatever the services answer, the request ends, and it makes at
\* most 3 text-generation calls, at most 2 routing requests per day in
\* buildRealRoutes, at most 48 probes and 2 geocoding requests per repaired
\* point, at most 2 further routing requests per trek day over 15 km, and
\* at most 1 routing request for the loop closure.  The request ends
\* because a request that has not ended can always take a step, which the
\* event loop then runs, and every step lowers the bound StepsLeft, which
\* is never negative
C38_TerminatesWithBoundedRequests ==
    /\ []RequestsBounded
    /\ []CanStep
    /\ [](StepsLeft >= 0)
    /\ [][StepsLeft' < StepsLeft]_vars

\* a request that ended after a repair in which one point took all 48
\* probes and both geocoding requests, and whose day was requested twice
C38_Witness ==
    /\ pc = "done"
    /\ \E k \in 1..Len(resolverLog) :
          Len(resolverLog[k].probes) = 48 /\ resolverLog[k].geocoded = 2
    /\ \E k \in 1..Len(orsLog) : RequestsOfDay(orsLog[k].day, {"build", "retry"}) = 2

\* ------------------------------------------------------------------------
\* Two overlapping refreshes of one token
\* ------------------------------------------------------------------------
\* the call has returned or thrown
Ended(call) == call.pc \in {"returned", "failed"}

\* the two calls presented the same token, each loaded the document while
\* the token was stored, they overlapped, and both have ended
OverlappingRefreshesEnded ==
    /\ Ended(sessions[1]) /\ Ended(sessions[2])
    /\ sessions[1].token = sessions[2].token
    /\ sessions[1].overlapped /\ sessions[2].overlapped
    /\ sessions[1].code \in {"ok", "VersionError"}
    /\ sessions[2].code \in {"ok", "VersionError"}

\* C39: when two calls of refreshToken that present the same stored token
\* are interleaved at their awaits, at most one of them succeeds, and
\* afterwards the presented token is not stored for the user
C39_RefreshSingleUseUnderConcurrency ==
    OverlappingRefreshesEnded =>
        /\ ~(sessions[1].code = "ok" /\ sessions[2].code = "ok")
        /\ ~Stored(user.refreshTokens, sessions[1].token)

\* the call of login in session s returns or throws in this step
LoginReturns(s) == sessions[s].pc = "compare" /\ sessions'[s].pc = "idle"

\* the call of login in session s loaded the account after a lock had
\* expired: the lock is set in the document it loaded, and the call was
\* not refused
LoadedAfterExpiry(s) ==
    sessions[s].pc = "compare" /\ sessions[s].loaded.accountLockedUntil # NoLock

LoginSucceeds == authHist'.last.op = "login" /\ authHist'.last.code = "ok"

\* C40: the counter of failed logins becomes 0 and the lock is cleared
\* only by a login that succeeds; the passing of time changes neither; a
\* login with a wrong password made after the lock has expired locks the
\* account again for 30 minutes from its return, and a login with the
\* correct password made after the lock has expired succeeds and leaves
\* the counter at 0 and the lock cleared.
C40_CounterResetOnlyBySuccess ==
    [][ /\ (user.failedLoginAttempts # 0 /\ user'.failedLoginAttempts = 0) =>
               \E s \in DOMAIN sessions : LoginReturns(s) /\ LoginSucceeds
        /\ (user.accountLockedUntil # NoLock /\ user'.accountLockedUntil = NoLock) =>
               \E s \in DOMAIN sessions : LoginReturns(s) /\ LoginSucceeds
        /\ now' # now => user' = user
        /\ \A s \in DOMAIN sessions :
               (LoadedAfterExpiry(s) /\ LoginReturns(s)) =>
                   IF sessions[s].valid
                   THEN /\ LoginSucceeds
                        /\ user'.failedLoginAttempts = 0
                        /\ user'.accountLockedUntil = NoLock
                   ELSE /\ authHist'.last.code = "INVALID_CREDENTIALS"
                        /\ user'.accountLockedUntil = now + LockSeconds
      ]_vars

====
